---- MODULE Spec2Model ----
(***************************************************************************)
(* Model of anon_messenger.py: the SecureMessenger channel (padding,       *)
(* Fernet envelope, timing gate), the AnonymousServer relay (handler       *)
(* threads sharing self.clients, dummy-traffic thread) and the             *)
(* AnonymousClient (send_message, receive_messages, chat UI).              *)
(*                                                                         *)
(* Bytes on a socket are modelled as byte strings made of segments of      *)
(* Fernet tokens: <<t, lo, hi>> is bytes lo..hi of the text of token t.    *)
(* Times are in milliseconds.                                              *)
(***************************************************************************)
EXTENDS Integers, Sequences, FiniteSets, TLC

\* ------------------------------------------------------------------ bounds
\* Envelopes the peers write to the relay, all peers together.
MaxWrites == 1
\* Rounds of the dummy-traffic thread that find a peer connected.
MaxDummies == 1
\* Envelopes the relay writes to a client's socket in the client specifications.
MaxDeliveries == 2
\* send_message calls of one client.
MaxSends == 2

\* --------------------------------------------------------------- constants
MESSAGE_SIZES == <<512, 1024, 2048, 4096>>
MIN_MESSAGE_DELAY == 500
MAX_MESSAGE_DELAY == 3000
\* recv(1024) in handle_client and receive_messages
RECV_SIZE == 1024
DUMMY_TRAFFIC_INTERVAL == 30
\* secrets.randbelow(64) + 16
PAD_MIN == 16
PAD_RANGE == 64

\* Plaintext lengths of the envelopes peers write: a short one (frame of 512
\* bytes) and a long one (frame of 1024 bytes).
PlainLens == {2, 500}

\* The peers of the relay; each is also an AnonymousClient instance.
Peers == {"A", "B", "C"}

\* The peers whose connection may go away while the relay runs.
Fragile == {"B"}

\* Optional values (Python None / a value).
None == [ok |-> FALSE, val |-> <<>>]
Some(x) == [ok |-> TRUE, val |-> x]

\* ------------------------------------------------------------- plaintexts
\* Strings are sequences of code points; "DUMMY:" is the reserved marker.
DUMMY_MARKER == <<68, 85, 77, 77, 89, 58>>

\* str.startswith
StartsWith(s, prefix) ==
    /\ Len(s) >= Len(prefix)
    /\ SubSeq(s, 1, Len(prefix)) = prefix

\* str.encode("utf-8") for code points below 0x800 (one or two bytes each);
\* the string is encoded half by half.
RECURSIVE Utf8Encode(_)
Utf8Encode(s) ==
    IF s = <<>> THEN <<>>
    ELSE IF Len(s) = 1
    THEN (IF s[1] < 128 THEN <<s[1]>>
          ELSE <<192 + (s[1] \div 64), 128 + (s[1] % 64)>>)
    ELSE LET h == Len(s) \div 2
         IN  Utf8Encode(SubSeq(s, 1, h)) \o Utf8Encode(SubSeq(s, h + 1, Len(s)))

\* A continuation byte 10xxxxxx.
IsCont(c) == c >= 128 /\ c < 192

\* bytes.decode("utf-8"): None stands for UnicodeDecodeError.  Sequences of
\* three and four bytes (lead byte >= 224) are outside the modelled range and
\* are treated as errors.  The bytes are decoded half by half, cut where a
\* character starts.
RECURSIVE Utf8Decode(_)
Utf8Decode(b) ==
    IF b = <<>> THEN Some(<<>>)
    ELSE IF Len(b) = 1
    THEN (IF b[1] < 128 THEN Some(<<b[1]>>) ELSE None)
    ELSE IF Len(b) = 2 /\ b[1] >= 128
    THEN (IF b[1] >= 194 /\ b[1] < 224 /\ IsCont(b[2])
          THEN Some(<<(b[1] - 192) * 64 + (b[2] - 128)>>) ELSE None)
    ELSE LET h == Len(b) \div 2
             cut == IF Len(b) > 2 /\ IsCont(b[h + 1])
                    THEN (IF h >= 2 THEN h - 1 ELSE 2) ELSE h
             l == Utf8Decode(SubSeq(b, 1, cut))
             r == Utf8Decode(SubSeq(b, cut + 1, Len(b)))
         IN  IF l.ok /\ r.ok THEN Some(l.val \o r.val) ELSE None

\* ------------------------------------------------------------------ frames
\* struct.pack(">I", n)
PackU32(n) ==
    <<(n \div 16777216) % 256, (n \div 65536) % 256, (n \div 256) % 256, n % 256>>

\* struct.unpack("<I", b[:4])[0]
UnpackU32LE(b) == ((b[4] * 256 + b[3]) * 256 + b[2]) * 256 + b[1]

\* struct.unpack(">I", b[:4])[0]
UnpackU32(b) == ((b[1] * 256 + b[2]) * 256 + b[3]) * 256 + b[4]

\* No rounding up to a size of MESSAGE_SIZES.
TargetSizeExact(current_size) == current_size

\* The largest size taken when none fits.
TargetSizeLargest(current_size) ==
    LET fits == {i \in 1..Len(MESSAGE_SIZES) : MESSAGE_SIZES[i] >= current_size}
    IN  IF fits = {} THEN MESSAGE_SIZES[Len(MESSAGE_SIZES)]
        ELSE MESSAGE_SIZES[CHOOSE i \in fits : \A j \in fits : i <= j]

\* next(size for size in MESSAGE_SIZES if size >= current_size);
\* 0 stands for StopIteration (no size fits).
TargetSize(current_size) ==
    LET fits == {i \in 1..Len(MESSAGE_SIZES) : MESSAGE_SIZES[i] >= current_size}
    IN  IF fits = {} THEN 0
        ELSE MESSAGE_SIZES[CHOOSE i \in fits : \A j \in fits : i <= j]

\* _pad_message: padding_size is the draw secrets.randbelow(64) + 16 and fill
\* the value of the random padding bytes.  None stands for the StopIteration
\* raised when no size fits.
pad_message(message_bytes, padding_size, fill) ==
    LET current_size == Len(message_bytes) + padding_size + 4
        target_size == TargetSize(current_size)
        total_padding_needed == target_size - Len(message_bytes) - 4
        padding0 == [i \in 1..padding_size |-> fill]
        padding == IF total_padding_needed > padding_size
                   THEN padding0 \o [i \in 1..(total_padding_needed - padding_size) |-> fill]
                   ELSE SubSeq(padding0, 1, total_padding_needed)
    IN  IF target_size = 0 THEN None
        ELSE Some(PackU32(Len(message_bytes)) \o message_bytes \o padding)

\* _unpad_message taking a length of 0 for a failure.
unpad_message_nonempty(padded_data) ==
    IF Len(padded_data) < 4 THEN None
    ELSE LET message_length == UnpackU32(padded_data)
         IN  IF message_length > Len(padded_data) - 4 THEN None
             ELSE IF message_length = 0 THEN None
             ELSE Some(SubSeq(padded_data, 5, 4 + message_length))

\* _unpad_message
unpad_message(padded_data) ==
    IF Len(padded_data) < 4 THEN None
    ELSE LET message_length == UnpackU32(padded_data)
         IN  IF message_length > Len(padded_data) - 4 THEN None
             ELSE IF message_length = 0 THEN Some(<<>>)
             ELSE Some(SubSeq(padded_data, 5, 4 + message_length))

\* ------------------------------------------------------------- key strings
\* Characters are code points: "=" is 61, ":" is 58.
PAD_CHAR == 61
COLON == 58

\* str.strip(): leading and trailing whitespace (str.isspace) is removed.
IsSpace(c) ==
    c \in {9, 10, 11, 12, 13, 28, 29, 30, 31, 32, 133, 160, 5760, 8232, 8233,
           8239, 8287, 12288} \cup (8192..8202)

Strip(s) ==
    LET keep == {i \in 1..Len(s) : ~IsSpace(s[i])}
    IN  IF keep = {} THEN <<>>
        ELSE SubSeq(s, CHOOSE i \in keep : \A j \in keep : i <= j,
                       CHOOSE i \in keep : \A j \in keep : i >= j)

\* len(s.split(":")): one more than the number of colons.
FieldCount(s) == Cardinality({i \in 1..Len(s) : s[i] = COLON}) + 1

\* s.split(":")[k - 1], for k in 1..FieldCount(s).
Field(s, k) ==
    LET colons == {i \in 1..Len(s) : s[i] = COLON}
        \* position of the n-th colon; 0 and Len(s) + 1 bound the fields
        at(n) == IF n = 0 THEN 0
                 ELSE IF n > Cardinality(colons) THEN Len(s) + 1
                 ELSE CHOOSE i \in colons : Cardinality({j \in colons : j <= i}) = n
    IN  SubSeq(s, at(k - 1) + 1, at(k) - 1)

\* The value of a character of the base64 alphabet, -1 for any other
\* character.  urlsafe_b64decode maps "-" and "_" to "+" and "/" and then
\* decodes the standard alphabet, so all four are accepted.
B64Val(c) ==
    IF c >= 65 /\ c <= 90 THEN c - 65
    ELSE IF c >= 97 /\ c <= 122 THEN c - 71
    ELSE IF c >= 48 /\ c <= 57 THEN c + 4
    ELSE IF c \in {45, 43} THEN 62
    ELSE IF c \in {95, 47} THEN 63
    ELSE -1

\* The character of a six-bit value in the URL-safe alphabet.
B64Char(v) ==
    IF v < 26 THEN 65 + v
    ELSE IF v < 52 THEN 71 + v
    ELSE IF v < 62 THEN v - 4
    ELSE IF v = 62 THEN 45
    ELSE 95

\* base64.urlsafe_b64encode(b): four characters per three bytes, "="
\* in place of the characters no byte contributes to.
UrlsafeB64Encode(b) ==
    LET n == Len(b)
        byte(i) == IF i <= n THEN b[i] ELSE 0
    IN  [i \in 1..(4 * ((n + 2) \div 3)) |->
            LET k == (i - 1) \div 4
                j == (i - 1) % 4
                v == (byte(3 * k + 1) * 256 + byte(3 * k + 2)) * 256 + byte(3 * k + 3)
            IN  IF j >= 2 /\ 3 * k + j > n THEN PAD_CHAR
                ELSE B64Char(CASE j = 0 -> v \div 262144
                               [] j = 1 -> (v \div 4096) % 64
                               [] j = 2 -> (v \div 64) % 64
                               [] j = 3 -> v % 64)]

\* base64.urlsafe_b64decode(s), as binascii.a2b_base64 decodes without
\* strict mode: characters outside the alphabet are skipped; the scan stops
\* at the "=" that completes a group of two or three data characters; at the
\* end of the input an incomplete group is an error (None stands for
\* binascii.Error).
UrlsafeB64Decode(s) ==
    LET isdata(i) == B64Val(s[i]) >= 0
        ndata(i) == Cardinality({j \in 1..(i - 1) : isdata(j)})
        lastdata(i) == IF \E j \in 1..(i - 1) : isdata(j)
                       THEN CHOOSE j \in 1..(i - 1) :
                              isdata(j) /\ \A k \in (j + 1)..(i - 1) : ~isdata(k)
                       ELSE 0
        pads(i) == Cardinality({j \in (lastdata(i) + 1)..i : s[j] = PAD_CHAR})
        stops == {i \in 1..Len(s) :
                     /\ s[i] = PAD_CHAR
                     /\ ndata(i) % 4 >= 2
                     /\ (ndata(i) % 4) + pads(i) >= 4}
        stop == IF stops = {} THEN Len(s) + 1
                ELSE CHOOSE i \in stops : \A j \in stops : i <= j
        data == SelectSeq(SubSeq(s, 1, stop - 1), LAMBDA c : B64Val(c) >= 0)
        q == Len(data) % 4
        nbytes == (Len(data) \div 4) * 3 + (IF q = 0 THEN 0 ELSE q - 1)
    IN  IF stops = {} /\ q # 0 THEN None
        ELSE Some([k \in 1..nbytes |->
                LET a == (8 * (k - 1)) \div 6 + 1
                    o == (8 * (k - 1)) % 6
                    v == B64Val(data[a]) * 64 + B64Val(data[a + 1])
                IN  CASE o = 0 -> v \div 16
                      [] o = 2 -> (v \div 4) % 256
                      [] o = 4 -> v % 256])

\* Fernet(key): the instance, known by the 32 bytes of signing and
\* encryption key the key text decodes to; None stands for the exception
\* raised when it does not decode to 32 bytes.
Fernet(k) ==
    LET d == UrlsafeB64Decode(k)
    IN  IF d.ok /\ Len(d.val) = 32 THEN Some(d.val) ELSE None

\* Fernet.generate_key(): the text of the 32 bytes os.urandom drew.
FernetGenerateKey(raw) == UrlsafeB64Encode(raw)

\* ------------------------------------------------------------- Fernet token
\* The text of a token over a frame of n bytes is the urlsafe base64 of
\* version(1) + timestamp(8) + iv(16) + AES-CBC/PKCS7 ciphertext + hmac(32).
FernetTokenLen(n) ==
    LET raw == 1 + 8 + 16 + 16 * ((n \div 16) + 1) + 32
    IN  4 * ((raw + 2) \div 3)

\* A token is kept as [key, plain, pad, fill, framed, len]: the key it is
\* sealed under, the arguments of _pad_message that give the sealed frame (or,
\* framed being FALSE, the sealed bytes themselves as plain), and the length
\* of its text.
TokenFrame(tok) ==
    IF tok.framed THEN pad_message(tok.plain, tok.pad, tok.fill).val ELSE tok.plain

TokenLen(tok) == tok.len

\* ------------------------------------------------------------ byte strings
\* A byte string is a sequence of segments <<t, lo, hi>>, kept normalised:
\* two adjacent segments never continue one another.
RECURSIVE BLen(_)
BLen(b) == IF b = <<>> THEN 0 ELSE (Head(b)[3] - Head(b)[2] + 1) + BLen(Tail(b))

\* b[:n]
RECURSIVE BTake(_, _)
BTake(b, n) ==
    IF n <= 0 \/ b = <<>> THEN <<>>
    ELSE LET s == Head(b)
             l == s[3] - s[2] + 1
         IN  IF l <= n THEN <<s>> \o BTake(Tail(b), n - l)
             ELSE <<(<<s[1], s[2], s[2] + n - 1>>)>>

\* b[n:]
RECURSIVE BDrop(_, _)
BDrop(b, n) ==
    IF n <= 0 \/ b = <<>> THEN b
    ELSE LET s == Head(b)
             l == s[3] - s[2] + 1
         IN  IF l <= n THEN BDrop(Tail(b), n - l)
             ELSE <<(<<s[1], s[2] + n, s[3]>>)>> \o Tail(b)

\* a + b
BCat(a, b) ==
    IF a = <<>> THEN b
    ELSE IF b = <<>> THEN a
    ELSE LET x == a[Len(a)]
             y == Head(b)
         IN  IF x[1] = y[1] /\ x[3] + 1 = y[2]
             THEN SubSeq(a, 1, Len(a) - 1) \o <<(<<x[1], x[2], y[3]>>)>> \o Tail(b)
             ELSE a \o b

\* ------------------------------------------------------------ list helpers
\* x in lst
InList(x, lst) == \E i \in 1..Len(lst) : lst[i] = x

\* lst.remove(x): the first occurrence is removed (the caller checks InList;
\* Python raises ValueError otherwise).
ListRemove(lst, x) ==
    LET i == CHOOSE k \in 1..Len(lst) : lst[k] = x /\ \A j \in 1..(k - 1) : lst[j] # x
    IN  SubSeq(lst, 1, i - 1) \o SubSeq(lst, i + 1, Len(lst))

\* ------------------------------------------------------------------- state
Server == "server"
Messengers == Peers \cup {Server}

VARIABLES
    \* AnonymousServer
    running,        \* self.running
    spc,            \* main thread: "init", "accept" (in start's accept loop), "stopped"
    clients,        \* self.clients, a list of peer sockets
    closed,         \* peer sockets the server has closed
    hpc,            \* handle_client thread of each peer: its position
    hidx,           \* index of the list iterator of "for client in self.clients"
    hcur,           \* the loop variable client
    hdata,          \* data, the chunk being forwarded
    hseq,           \* chunks received so far from each peer
    hview,          \* (history) the peers in self.clients when the chunk arrived
    hfail,          \* (history) the peers a send of this chunk failed for
    dpc,            \* generate_dummy_traffic thread: its position
    dsnap,          \* self.clients[:], the copy it iterates
    didx,           \* position in the copy
    dmsg,           \* dummy_msg.encode()
    ndummy,         \* dummy rounds so far
    \* the network
    tokens,         \* every Fernet token produced so far
    up,             \* bytes written by each peer, not yet read by its handler
    sock,           \* what the relay wrote to each peer socket, in order
    rpos,           \* bytes of it the peer has read
    peer,           \* peer end of each connection: "absent", "open", "gone"
    nwrites,        \* writes by peers so far
    \* AnonymousClient
    connected,      \* self.connected
    rpc,            \* receive_messages thread: its position
    display,        \* messages printed by receive_messages
    sendlog,        \* per send_message call: message, result and what it did
    mpc,            \* main thread of the client: its position
    rlog,           \* (history) what receive_messages did with each chunk
    rlost,          \* (history) recv returned b"" or raised on a lost connection
    \* SecureMessenger
    key,            \* self.key
    cipher_suite,   \* self.cipher_suite (the key of the Fernet instance)
    last_send_time, \* self.last_send_time
    now,            \* time.time()
    message_counter, \* self.message_counter
    private_key,    \* self.private_key
    public_key,     \* self.public_key
    shared_secret,  \* self.shared_secret
    ret,            \* (history) per messenger, the last call of connect or of
                    \* a SecureMessenger method made from outside: its
                    \* argument, the padding length it drew (0: none) and
                    \* its result; for cleanup also what the buffers it
                    \* handled contain when it returns
    timing,         \* per messenger, the caller's position in
                    \* _apply_timing_obfuscation and its locals
    \* loops of connect and stop
    attempt,        \* per client, the connection attempts connect has made
    sidx,           \* stop: the index of the list iterator of
                    \* "for client in self.clients"
    sview           \* (history) self.clients when stop was called

relayVars == <<running, spc, clients, closed, hpc, hidx, hcur, hdata, hseq, hview, hfail>>
dummyVars == <<dpc, dsnap, didx, dmsg, ndummy>>
netVars == <<tokens, up, sock, rpos, peer, nwrites>>
clientVars == <<connected, rpc, display, sendlog, mpc, rlog, rlost>>
msgrVars == <<key, cipher_suite, last_send_time, now>>
loopVars == <<attempt, sidx, sview>>
callVars == <<message_counter, private_key, public_key, shared_secret, ret, timing, loopVars>>
vars == <<relayVars, dummyVars, netVars, clientVars, msgrVars, callVars>>

NoKey == None

\* _apply_timing_obfuscation is not being executed.
NotBlocked == [pc |-> "idle", prev |-> 0, entered |-> 0, delay |-> 0]
NoPeer == "none"
NoCall == [op |-> "none", arg |-> <<>>, draw |-> 0, result |-> None]

\* State after construction: AnonymousServer.__init__, AnonymousClient.__init__
\* and SecureMessenger.__init__ of each; no connection exists.
Init ==
    /\ running = FALSE
    /\ spc = "init"
    /\ clients = <<>>
    /\ closed = {}
    /\ hpc = [p \in Peers |-> "none"]
    /\ hidx = [p \in Peers |-> 0]
    /\ hcur = [p \in Peers |-> NoPeer]
    /\ hdata = [p \in Peers |-> <<>>]
    /\ hseq = [p \in Peers |-> 0]
    /\ hview = [p \in Peers |-> {}]
    /\ hfail = [p \in Peers |-> {}]
    /\ dpc = "none"
    /\ dsnap = <<>>
    /\ didx = 0
    /\ dmsg = <<>>
    /\ ndummy = 0
    /\ tokens = <<>>
    /\ up = [p \in Peers |-> <<>>]
    /\ sock = [p \in Peers |-> <<>>]
    /\ rpos = [p \in Peers |-> 0]
    /\ peer = [p \in Peers |-> "absent"]
    /\ nwrites = 0
    /\ connected = [p \in Peers |-> FALSE]
    /\ rpc = [p \in Peers |-> "none"]
    /\ display = [p \in Peers |-> <<>>]
    /\ sendlog = [p \in Peers |-> <<>>]
    /\ mpc = [p \in Peers |-> "init"]
    /\ rlog = [p \in Peers |-> <<>>]
    /\ rlost = [p \in Peers |-> FALSE]
    /\ key = [m \in Messengers |-> NoKey]
    /\ cipher_suite = [m \in Messengers |-> NoKey]
    /\ last_send_time = [m \in Messengers |-> 0]
    /\ now = MAX_MESSAGE_DELAY
    /\ message_counter = [m \in Messengers |-> 0]
    /\ private_key = [m \in Messengers |-> None]
    /\ public_key = [m \in Messengers |-> None]
    /\ shared_secret = [m \in Messengers |-> None]
    /\ ret = [m \in Messengers |-> NoCall]
    /\ timing = [m \in Messengers |-> NotBlocked]
    /\ attempt = [p \in Peers |-> 0]
    /\ sidx = 0
    /\ sview = <<>>

\* The whole text of token t as a byte string.
Whole(t) == <<(<<t, 1, TokenLen(tokens[t])>>)>>

\* The bytes written to a socket, from its entries.
RECURSIVE Stream(_)
Stream(entries) ==
    IF entries = <<>> THEN <<>>
    ELSE BCat(Stream(SubSeq(entries, 1, Len(entries) - 1)), entries[Len(entries)].data)

\* (mutant) the bytes are queued ahead of what was written before.
SockSendFront(written, entry) == <<entry>> \o written

\* socket.send on the relay's side of peer q's connection: the bytes follow
\* what was written before.
SockSend(written, entry) == Append(written, entry)

\* A send to peer q raises when the server has closed that socket or the peer
\* has gone away.
SendFails(q) == q \in closed \/ peer[q] = "gone"

\* ------------------------------------------------------------ SecureMessenger
\* The element of a one-element set; {e(x) : x \in {v}} gives e a local
\* variable x whose value v is computed once.
TheOne(S) == CHOOSE r \in S : TRUE

\* The draws of os.urandom(32) the model follows.
RawKey(i) == [j \in 1..32 |-> 16 * i + j]

\* generate_key() returning self.key itself.
generate_key_plain(raw) ==
    [key |-> Some(FernetGenerateKey(raw)),
     cipher_suite |-> Fernet(FernetGenerateKey(raw)),
     result |-> FernetGenerateKey(raw)]

\* generate_key(), raw being the draw of Fernet.generate_key(): the fields it
\* sets and the token it returns, urlsafe_b64encode of self.key.
generate_key(raw) ==
    [key |-> Some(FernetGenerateKey(raw)),
     cipher_suite |-> Fernet(FernetGenerateKey(raw)),
     result |-> UrlsafeB64Encode(FernetGenerateKey(raw))]

\* set_key(key_str) on messenger m: the fields after the call and the value
\* returned.  self.key is assigned before Fernet(self.key) can raise.
set_key(m, key_str) ==
    LET stripped == Strip(key_str)
        missing_padding == Len(stripped) % 4
        fixed == IF missing_padding # 0
                 THEN stripped \o [i \in 1..(4 - missing_padding) |-> PAD_CHAR]
                 ELSE stripped
    IN  TheOne({
          IF ~decoded.ok
          THEN [key |-> key[m], cipher_suite |-> cipher_suite[m], result |-> FALSE]
          ELSE TheOne({
                 IF ~suite.ok
                 THEN [key |-> Some(decoded.val), cipher_suite |-> cipher_suite[m],
                       result |-> FALSE]
                 ELSE [key |-> Some(decoded.val), cipher_suite |-> suite,
                       result |-> TRUE]
                 : suite \in {Fernet(decoded.val)}})
          : decoded \in {UrlsafeB64Decode(fixed)}})

\* self.key of this run's server, its cipher suite and the token it prints.
GeneratedKey == generate_key(RawKey(1)).key
GeneratedSuite == generate_key(RawKey(1)).cipher_suite
GeneratedToken == generate_key(RawKey(1)).result

\* The connection string the server prints: onion address, ":", token.
OnionAddress == <<97, 46, 111, 110, 105, 111, 110>>
ConnectionString == OnionAddress \o <<COLON>> \o GeneratedToken

\* The draws of secrets.randbelow(n) the model follows: the two extremes.
RandBelow(n) == {0, n - 1}

\* cipher_suite.encrypt(self._pad_message(message)): the token; .decode() is
\* its text.
FernetEncrypt(k, message_bytes, padding_size, fill) ==
    [key |-> k, plain |-> message_bytes, pad |-> padding_size, fill |-> fill,
     framed |-> TRUE,
     len |-> FernetTokenLen(Len(pad_message(message_bytes, padding_size, fill).val))]

\* A token sealing bytes that _pad_message did not build (the "legacy format
\* without padding" decrypt_message provides for).
FernetSeal(k, frame) ==
    [key |-> k, plain |-> frame, pad |-> 0, fill |-> 0, framed |-> FALSE,
     len |-> FernetTokenLen(Len(frame))]

\* cipher_suite.decrypt(text.encode()) for a chunk of received bytes: the
\* frame when the chunk is exactly the text of one token sealed under k,
\* None (InvalidToken) otherwise.  A segment with a fourth element is the
\* text of a token with the byte at that position altered.
FernetDecrypt(k, data) ==
    IF /\ Len(data) = 1
       /\ Len(data[1]) = 3
       /\ data[1][2] = 1
       /\ data[1][3] = TokenLen(tokens[data[1][1]])
       /\ tokens[data[1][1]].key = k
    THEN Some(TokenFrame(tokens[data[1][1]]))
    ELSE None

\* An exception that leaves a method.
Raised == [ok |-> FALSE, val |-> <<-1>>]

\* decrypt_message without its "except Exception".
decrypt_message_uncaught(m, data) ==
    IF cipher_suite[m] = NoKey THEN None
    ELSE TheOne({
           IF ~padded_message.ok THEN Raised
           ELSE TheOne({
                  IF message_bytes.ok THEN Utf8Decode(message_bytes.val)
                  ELSE Utf8Decode(padded_message.val)
                  : message_bytes \in {unpad_message(padded_message.val)}})
           : padded_message \in {FernetDecrypt(cipher_suite[m], data)}})

\* decrypt_message: Some(plaintext) or None.
decrypt_message(m, data) ==
    IF cipher_suite[m] = NoKey THEN None
    ELSE TheOne({
           IF ~padded_message.ok THEN None
           ELSE TheOne({
                  IF message_bytes.ok THEN Utf8Decode(message_bytes.val)
                  ELSE Utf8Decode(padded_message.val)
                  : message_bytes \in {unpad_message(padded_message.val)}})
           : padded_message \in {FernetDecrypt(cipher_suite[m], data)}})

\* The delay without its floor of MIN_MESSAGE_DELAY.
TimingDelayBare(m, base) ==
    base

\* A key taken from the messenger's static key instead of the shared secret.
derive_message_key_static(m, message_id) ==
    IF key[m].ok THEN Some(<<key[m].val, message_id>>) ELSE None

\* _derive_message_key(message_id): with a shared secret, the HKDF output for
\* the secret and the message id (an injective pairing stands for the hash);
\* otherwise None.
derive_message_key(m, message_id) ==
    IF shared_secret[m] # None
    THEN Some(<<shared_secret[m].val, message_id>>)
    ELSE None

\* _apply_timing_obfuscation: base is the draw
\* secrets.randbelow(int((MAX_MESSAGE_DELAY - MIN_MESSAGE_DELAY) * 1000)).
TimingDelay(m, base) ==
    LET time_since_last == now - last_send_time[m]
    IN  base + MIN_MESSAGE_DELAY
        + (IF time_since_last < MIN_MESSAGE_DELAY
           THEN MIN_MESSAGE_DELAY - time_since_last ELSE 0)

\* The timing gate entered before the test of the cipher suite.
encrypt_message_gate_first(m, base) ==
    /\ now' = now + TimingDelay(m, base)
    /\ last_send_time' = [last_send_time EXCEPT ![m] = now + TimingDelay(m, base)]

\* What an encrypt_message call does to the clock and to last_send_time: with
\* no cipher suite it returns at once; otherwise it sleeps in
\* _apply_timing_obfuscation and sets last_send_time after the sleep.
encrypt_message_gate(m, base) ==
    IF cipher_suite[m] = NoKey
    THEN UNCHANGED <<now, last_send_time>>
    ELSE /\ now' = now + TimingDelay(m, base)
         /\ last_send_time' = [last_send_time EXCEPT ![m] = now + TimingDelay(m, base)]

\* encrypt_message's result: Some(token) or None (no cipher suite, or the
\* StopIteration of _pad_message caught by "except Exception").
encrypt_message(m, message, padding_size, fill) ==
    IF cipher_suite[m] = NoKey THEN None
    ELSE IF ~pad_message(Utf8Encode(message), padding_size, fill).ok THEN None
    ELSE Some(FernetEncrypt(cipher_suite[m], Utf8Encode(message), padding_size, fill))

\* generate_dummy_message's plaintext: "DUMMY:" + secrets.token_hex(n + 50),
\* n the draw secrets.randbelow(100); the hex digits are all "a" here.
DummyPlaintext(n) == DUMMY_MARKER \o [i \in 1..(2 * (n + 50)) |-> 97]

\* is_dummy_message
is_dummy_message(decrypted_message) ==
    decrypted_message # <<>> /\ StartsWith(decrypted_message, DUMMY_MARKER)

\* ------------------------------------------------------------ AnonymousServer
\* start(): generate_key, running = True, the dummy-traffic thread is started
\* and the main thread enters the accept loop.
server_start ==
    /\ spc = "init"
    /\ spc' = "accept"
    /\ running' = TRUE
    /\ key' = [key EXCEPT ![Server] = generate_key(RawKey(1)).key]
    /\ cipher_suite' = [cipher_suite EXCEPT ![Server] = generate_key(RawKey(1)).cipher_suite]
    /\ dpc' = "sleep"
    /\ UNCHANGED <<clients, closed, hpc, hidx, hcur, hdata, hseq, hview, hfail>>
    /\ UNCHANGED <<dsnap, didx, dmsg, ndummy>>
    /\ UNCHANGED <<netVars, clientVars, last_send_time, now>>
    /\ UNCHANGED callVars

\* The accept loop takes peer p's connection; its handle_client thread starts
\* and appends the socket to self.clients.
accept(p) ==
    /\ spc = "accept"
    /\ running
    /\ peer[p] = "open"
    /\ hpc[p] = "none"
    /\ clients' = Append(clients, p)
    /\ hpc' = [hpc EXCEPT ![p] = "loop"]
    /\ UNCHANGED <<running, spc, closed, hidx, hcur, hdata, hseq, hview, hfail>>
    /\ UNCHANGED <<dummyVars, netVars, clientVars, msgrVars>>
    /\ UNCHANGED callVars

\* handle_client: "while self.running: data = client_socket.recv(1024)".
\* recv raises on a socket the server closed, returns up to 1024 bytes when
\* some have arrived, returns b"" once the peer has gone.
handle_client_recv(p) ==
    /\ hpc[p] = "loop"
    /\ IF ~running \/ p \in closed
       THEN /\ hpc' = [hpc EXCEPT ![p] = "finally"]
            /\ UNCHANGED <<hidx, hdata, hseq, hview, up>>
       ELSE IF up[p] # <<>>
       THEN /\ hdata' = [hdata EXCEPT ![p] = BTake(up[p], RECV_SIZE)]
            /\ up' = [up EXCEPT ![p] = BDrop(up[p], RECV_SIZE)]
            /\ hseq' = [hseq EXCEPT ![p] = @ + 1]
            /\ hidx' = [hidx EXCEPT ![p] = 0]
            /\ hview' = [hview EXCEPT ![p] = {clients[i] : i \in 1..Len(clients)}]
            /\ hpc' = [hpc EXCEPT ![p] = "for"]
       ELSE /\ peer[p] = "gone"
            /\ hpc' = [hpc EXCEPT ![p] = "finally"]
            /\ UNCHANGED <<hidx, hdata, hseq, hview, up>>
    /\ UNCHANGED <<running, spc, clients, closed, hcur, hfail>>
    /\ UNCHANGED <<tokens, sock, rpos, peer, nwrites>>
    /\ UNCHANGED <<dummyVars, clientVars, msgrVars>>
    /\ UNCHANGED callVars

\* One round of "for client in self.clients": the list iterator yields
\* self.clients[index] of the list as it is now, or ends the loop when the
\* index is past its end.  "if client != client_socket" skips the sender
\* itself; for any other peer "client.send(data)" follows: on success the
\* loop goes on, on an exception the handler enters the except block.
handle_client_for(p) ==
    /\ hpc[p] = "for"
    /\ IF hidx[p] < Len(clients)
       THEN LET client == clients[hidx[p] + 1]
            IN  /\ hidx' = [hidx EXCEPT ![p] = @ + 1]
                /\ UNCHANGED hdata
                /\ UNCHANGED hview
                /\ IF client = p
                   THEN UNCHANGED <<hcur, hpc, sock, hfail>>
                   ELSE IF SendFails(client)
                   THEN /\ hcur' = [hcur EXCEPT ![p] = client]
                        /\ hpc' = [hpc EXCEPT ![p] = "except"]
                        /\ hfail' = [hfail EXCEPT ![p] = @ \cup {client}]
                        /\ UNCHANGED sock
                   ELSE /\ sock' = [sock EXCEPT ![client] =
                               SockSend(@, [src |-> p, seq |-> hseq[p], data |-> hdata[p]])]
                        /\ UNCHANGED <<hcur, hpc, hfail>>
       ELSE /\ hidx' = [hidx EXCEPT ![p] = 0]
            /\ hcur' = [hcur EXCEPT ![p] = NoPeer]
            /\ hdata' = [hdata EXCEPT ![p] = <<>>]
            /\ hview' = [hview EXCEPT ![p] = {}]
            /\ hfail' = [hfail EXCEPT ![p] = {}]
            /\ hpc' = [hpc EXCEPT ![p] = "loop"]
            /\ UNCHANGED sock
    /\ UNCHANGED <<running, spc, clients, closed, hseq>>
    /\ UNCHANGED <<tokens, up, rpos, peer, nwrites>>
    /\ UNCHANGED <<dummyVars, clientVars, msgrVars>>
    /\ UNCHANGED callVars

\* except block: "if client in self.clients"
handle_client_except(p) ==
    /\ hpc[p] = "except"
    /\ IF InList(hcur[p], clients)
       THEN /\ hpc' = [hpc EXCEPT ![p] = "remove"]
            /\ UNCHANGED hcur
       ELSE /\ hpc' = [hpc EXCEPT ![p] = "for"]
            /\ hcur' = [hcur EXCEPT ![p] = NoPeer]
    /\ UNCHANGED <<running, spc, clients, closed, hidx, hdata, hseq, hview, hfail>>
    /\ UNCHANGED <<dummyVars, netVars, clientVars, msgrVars>>
    /\ UNCHANGED callVars

\* "self.clients.remove(client); client.close()": remove raises ValueError
\* when another thread removed the peer in between, and the exception leaves
\* the loops for the finally block.
handle_client_remove(p) ==
    /\ hpc[p] = "remove"
    /\ IF InList(hcur[p], clients)
       THEN /\ clients' = ListRemove(clients, hcur[p])
            /\ closed' = closed \cup {hcur[p]}
            /\ hpc' = [hpc EXCEPT ![p] = "for"]
            /\ hcur' = [hcur EXCEPT ![p] = NoPeer]
       ELSE /\ hpc' = [hpc EXCEPT ![p] = "finally"]
            /\ UNCHANGED <<clients, closed, hcur>>
    /\ UNCHANGED <<running, spc, hidx, hdata, hseq, hview, hfail>>
    /\ UNCHANGED <<dummyVars, netVars, clientVars, msgrVars>>
    /\ UNCHANGED callVars

\* finally: "if client_socket in self.clients"; when it is not,
\* "client_socket.close()" follows at once.
handle_client_finally(p) ==
    /\ hpc[p] = "finally"
    /\ IF InList(p, clients)
       THEN /\ hpc' = [hpc EXCEPT ![p] = "fremove"]
            /\ UNCHANGED closed
       ELSE /\ hpc' = [hpc EXCEPT ![p] = "done"]
            /\ closed' = closed \cup {p}
    /\ hidx' = [hidx EXCEPT ![p] = 0]
    /\ hcur' = [hcur EXCEPT ![p] = NoPeer]
    /\ hdata' = [hdata EXCEPT ![p] = <<>>]
    /\ hview' = [hview EXCEPT ![p] = {}]
    /\ hfail' = [hfail EXCEPT ![p] = {}]
    /\ UNCHANGED <<running, spc, clients, hseq>>
    /\ UNCHANGED <<dummyVars, netVars, clientVars, msgrVars>>
    /\ UNCHANGED callVars

\* finally: "self.clients.remove(client_socket)" and then
\* "client_socket.close()"; a ValueError from remove ends the thread before
\* the close.
handle_client_fremove(p) ==
    /\ hpc[p] = "fremove"
    /\ IF InList(p, clients)
       THEN /\ clients' = ListRemove(clients, p)
            /\ closed' = closed \cup {p}
            /\ hpc' = [hpc EXCEPT ![p] = "done"]
       ELSE /\ hpc' = [hpc EXCEPT ![p] = "died"]
            /\ UNCHANGED <<clients, closed>>
    /\ UNCHANGED <<running, spc, hidx, hcur, hdata, hseq, hview, hfail>>
    /\ UNCHANGED <<dummyVars, netVars, clientVars, msgrVars>>
    /\ UNCHANGED callVars

\* generate_dummy_traffic: "while self.running", the sleep of
\* DUMMY_TRAFFIC_INTERVAL + secrets.randbelow(30) seconds, and then
\* "if self.running and len(self.clients) > 0".
dummy_wake(r) ==
    /\ dpc = "sleep"
    /\ IF ~running
       THEN /\ dpc' = "done"
            /\ UNCHANGED <<ndummy, now>>
       ELSE /\ ndummy < MaxDummies
            /\ ndummy' = ndummy + 1
            /\ now' = now + (DUMMY_TRAFFIC_INTERVAL + r) * 1000
            /\ dpc' = IF Len(clients) > 0 THEN "generate" ELSE "sleep"
    /\ UNCHANGED <<dsnap, didx, dmsg>>
    /\ UNCHANGED <<key, cipher_suite, last_send_time>>
    /\ UNCHANGED <<relayVars, netVars, clientVars>>
    /\ UNCHANGED callVars

\* "dummy_msg = self.messenger.generate_dummy_message()" and, when it is not
\* None, the copy "self.clients[:]" the loop will go through.
dummy_generate(n, padding_size, fill, base) ==
    /\ dpc = "generate"
    /\ encrypt_message_gate(Server, base)
    /\ LET dummy_msg == encrypt_message(Server, DummyPlaintext(n), padding_size, fill)
           t == Len(tokens) + 1
       IN  IF dummy_msg.ok
           THEN /\ tokens' = Append(tokens, dummy_msg.val)
                /\ dmsg' = <<(<<t, 1, TokenLen(dummy_msg.val)>>)>>
                /\ dsnap' = clients
                /\ didx' = 0
                /\ dpc' = "for"
           ELSE /\ dpc' = "sleep"
                /\ UNCHANGED <<tokens, dmsg, dsnap, didx>>
    /\ UNCHANGED <<ndummy, key, cipher_suite>>
    /\ UNCHANGED <<up, sock, rpos, peer, nwrites>>
    /\ UNCHANGED <<relayVars, clientVars>>
    /\ UNCHANGED callVars

\* One round of "for client in self.clients[:]": "client.send(...)" to the
\* next peer of the copy, or the end of the loop.
dummy_for ==
    /\ dpc = "for"
    /\ IF didx < Len(dsnap)
       THEN LET client == dsnap[didx + 1]
            IN  /\ didx' = didx + 1
                /\ UNCHANGED <<dsnap, dmsg>>
                /\ IF SendFails(client)
                   THEN /\ dpc' = "except"
                        /\ UNCHANGED sock
                   ELSE /\ sock' = [sock EXCEPT ![client] =
                               SockSend(@, [src |-> Server, seq |-> ndummy, data |-> dmsg])]
                        /\ UNCHANGED dpc
       ELSE /\ dpc' = "sleep"
            /\ dsnap' = <<>>
            /\ didx' = 0
            /\ dmsg' = <<>>
            /\ UNCHANGED sock
    /\ UNCHANGED ndummy
    /\ UNCHANGED <<tokens, up, rpos, peer, nwrites>>
    /\ UNCHANGED <<relayVars, clientVars, msgrVars>>
    /\ UNCHANGED callVars

\* The peer the dummy loop is at (the loop variable client).
dummy_client == dsnap[didx]

\* except block: "if client in self.clients"
dummy_except ==
    /\ dpc = "except"
    /\ dpc' = IF InList(dummy_client, clients) THEN "remove" ELSE "for"
    /\ UNCHANGED <<dsnap, didx, dmsg, ndummy>>
    /\ UNCHANGED <<relayVars, netVars, clientVars, msgrVars>>
    /\ UNCHANGED callVars

\* "self.clients.remove(client); client.close()": a ValueError from remove
\* reaches the outer "except Exception", which breaks out of the thread's loop.
dummy_remove ==
    /\ dpc = "remove"
    /\ IF InList(dummy_client, clients)
       THEN /\ clients' = ListRemove(clients, dummy_client)
            /\ closed' = closed \cup {dummy_client}
            /\ dpc' = "for"
            /\ UNCHANGED <<dsnap, didx, dmsg>>
       ELSE /\ dpc' = "done"
            /\ dsnap' = <<>>
            /\ didx' = 0
            /\ dmsg' = <<>>
            /\ UNCHANGED <<clients, closed>>
    /\ UNCHANGED ndummy
    /\ UNCHANGED <<running, spc, hpc, hidx, hcur, hdata, hseq, hview, hfail>>
    /\ UNCHANGED <<netVars, clientVars, msgrVars>>
    /\ UNCHANGED callVars

\* ------------------------------------------------------------ peers (relay view)
\* A peer's connection reaches the listening socket.
peer_connect(p) ==
    /\ spc = "accept"
    /\ peer[p] = "absent"
    /\ peer' = [peer EXCEPT ![p] = "open"]
    /\ UNCHANGED <<tokens, up, sock, rpos, nwrites>>
    /\ UNCHANGED <<relayVars, dummyVars, clientVars, msgrVars>>
    /\ UNCHANGED callVars

\* A peer writes one envelope to its socket: the token of a plaintext of
\* n bytes.
peer_write(p, n) ==
    /\ peer[p] = "open"
    /\ nwrites < MaxWrites
    /\ LET tok == FernetEncrypt(GeneratedSuite, [i \in 1..n |-> 104], PAD_MIN, 0)
           t == Len(tokens) + 1
       IN  /\ tokens' = Append(tokens, tok)
           /\ up' = [up EXCEPT ![p] = BCat(@, <<(<<t, 1, TokenLen(tok)>>)>>)]
    /\ nwrites' = nwrites + 1
    /\ UNCHANGED <<sock, rpos, peer>>
    /\ UNCHANGED <<relayVars, dummyVars, clientVars, msgrVars>>
    /\ UNCHANGED callVars

\* A peer goes away (its process ends or its connection breaks).
peer_gone(p) ==
    /\ peer[p] = "open"
    /\ peer' = [peer EXCEPT ![p] = "gone"]
    /\ UNCHANGED <<tokens, up, sock, rpos, nwrites>>
    /\ UNCHANGED <<relayVars, dummyVars, clientVars, msgrVars>>
    /\ UNCHANGED callVars

NextRelay ==
    \/ server_start
    \/ \E p \in Peers : accept(p)
    \/ \E p \in Peers : handle_client_recv(p)
    \/ \E p \in Peers : handle_client_for(p)
    \/ \E p \in Peers : handle_client_except(p)
    \/ \E p \in Peers : handle_client_remove(p)
    \/ \E p \in Peers : handle_client_finally(p)
    \/ \E p \in Peers : handle_client_fremove(p)
    \/ \E p \in Peers : peer_connect(p)
    \/ \E p \in Peers, n \in PlainLens : peer_write(p, n)
    \/ \E p \in Fragile : peer_gone(p)

\* The relay with its handler threads and the peers.
SpecRelay == Init /\ [][NextRelay]_vars

NextServer ==
    \/ NextRelay
    \/ \E r \in {0} : dummy_wake(r)
    \/ \E n \in {0} : dummy_generate(n, PAD_MIN, 0, 0)
    \/ dummy_for
    \/ dummy_except
    \/ dummy_remove

\* The relay with the dummy-traffic thread as well.
SpecServer == Init /\ [][NextServer]_vars

\* ------------------------------------------------------------ AnonymousClient
\* The clients that type messages.
Users == {"A"}

\* A key other than the one in the connection string, and its cipher suite.
ForeignKey == generate_key(RawKey(2)).key
ForeignSuite == generate_key(RawKey(2)).cipher_suite

Text(n) == [i \in 1..n |-> 104]

\* What reaches a client's socket from the relay: envelopes other holders of
\* the key sent (a short text, the empty text, a text of 500 characters), a
\* dummy envelope of generate_dummy_message, an envelope under another key.
Deliveries ==
    {[key |-> GeneratedSuite, plain |-> Text(2)],
     [key |-> GeneratedSuite, plain |-> <<>>],
     [key |-> GeneratedSuite, plain |-> Text(500)],
     [key |-> GeneratedSuite, plain |-> DummyPlaintext(0)],
     [key |-> ForeignSuite, plain |-> Text(2)]}

\* A test that lets strings of more than two fields through.
InvalidFormatLoose(connection_string) == FieldCount(connection_string) < 2

\* "if len(parts) != 2" of connect, parts being connection_string.split(":").
InvalidFormat(connection_string) == FieldCount(connection_string) # 2

\* connect(connection_string): the string is stripped and split at ":";
\* unless it has two fields connect returns False at once.  Otherwise
\* set_key is called with the second field, and when that returns True the
\* socket connects (ok) or every retry fails; on success connected = True and
\* the receive thread starts.  main then runs start_chat_ui or, connect
\* having returned False, goes to disconnect.
client_connect(p, connection_string, ok) ==
    /\ mpc[p] = "init"
    /\ \E stripped \in {Strip(connection_string)} :
       \E keyed \in {IF InvalidFormat(stripped)
                      THEN [key |-> key[p], cipher_suite |-> cipher_suite[p],
                            result |-> FALSE]
                      ELSE set_key(p, Strip(Field(stripped, 2)))} :
       \E result \in {keyed.result /\ ok} :
           /\ key' = [key EXCEPT ![p] = keyed.key]
           /\ cipher_suite' = [cipher_suite EXCEPT ![p] = keyed.cipher_suite]
           /\ IF result
              THEN /\ spc = "accept"
                   /\ peer[p] = "absent"
                   /\ peer' = [peer EXCEPT ![p] = "open"]
                   /\ connected' = [connected EXCEPT ![p] = TRUE]
                   /\ rpc' = [rpc EXCEPT ![p] = "recv"]
                   /\ mpc' = [mpc EXCEPT ![p] = "chat"]
              ELSE /\ mpc' = [mpc EXCEPT ![p] = "closing"]
                   /\ UNCHANGED <<peer, connected, rpc>>
           /\ ret' = [ret EXCEPT ![p] = [op |-> "connect", arg |-> connection_string, draw |-> 0,
                                         result |-> result]]
    /\ UNCHANGED <<display, sendlog, rlog, rlost>>
    /\ UNCHANGED <<tokens, up, sock, rpos, nwrites>>
    /\ UNCHANGED <<last_send_time, now>>
    /\ UNCHANGED <<message_counter, private_key, public_key, shared_secret, timing>>
    /\ UNCHANGED loopVars
    /\ UNCHANGED <<relayVars, dummyVars>>

\* receive_messages: "while self.connected", evaluated when the thread starts
\* and at the end of each round: the thread goes to recv or ends.
receive_messages_while(p) == IF connected[p] THEN "recv" ELSE "ended"

\* The bytes the relay wrote to p's socket that p has not read.
Avail(p) == BDrop(Stream(sock[p]), rpos[p])

\* What "self.socket.recv(1024)" returns when bytes are there.
Frame(p) == BTake(Avail(p), RECV_SIZE)

\* (mutant) whatever the decryption returned is printed.
DisplayedRaw(decrypted_msg) == <<decrypted_msg.val>>

\* What receive_messages prints for the result of decrypt_message:
\* "if decrypted_msg:" and "if not self.messenger.is_dummy_message(...)".
Displayed(decrypted_msg) ==
    IF /\ decrypted_msg.ok
       /\ decrypted_msg.val # <<>>
       /\ ~is_dummy_message(decrypted_msg.val)
    THEN <<decrypted_msg.val>>
    ELSE <<>>

\* The branch receive_messages takes for the result of decrypt_message.
Outcome(decrypted_msg) ==
    IF ~decrypted_msg.ok THEN "failed"
    ELSE IF decrypted_msg.val = <<>> THEN "empty"
    ELSE IF is_dummy_message(decrypted_msg.val) THEN "dummy"
    ELSE "shown"

\* receive_messages: "data = self.socket.recv(1024)" and what follows it in
\* the try block.  recv raises on the socket disconnect() closed; it returns
\* up to 1024 of the bytes that arrived; b"" once the relay closed the
\* connection ("break"); it raises when the connection broke.
receive_messages_recv(p) ==
    /\ rpc[p] = "recv"
    /\ IF mpc[p] = "done"
       THEN /\ rpc' = [rpc EXCEPT ![p] = "except"]
            /\ UNCHANGED <<rpos, display, rlog, rlost>>
       ELSE IF Avail(p) # <<>>
       THEN \E data \in {Frame(p)} : \E decrypted_msg \in {decrypt_message(p, data)} :
                /\ rpos' = [rpos EXCEPT ![p] = @ + BLen(data)]
                /\ display' = [display EXCEPT ![p] = @ \o Displayed(decrypted_msg)]
                /\ rlog' = [rlog EXCEPT ![p] = Append(@, Outcome(decrypted_msg))]
                /\ rpc' = [rpc EXCEPT ![p] = receive_messages_while(p)]
                /\ UNCHANGED rlost
       ELSE IF p \in closed
       THEN /\ rpc' = [rpc EXCEPT ![p] = "ended"]
            /\ rlost' = [rlost EXCEPT ![p] = TRUE]
            /\ UNCHANGED <<rpos, display, rlog>>
       ELSE /\ peer[p] = "gone"
            /\ rpc' = [rpc EXCEPT ![p] = "except"]
            /\ rlost' = [rlost EXCEPT ![p] = TRUE]
            /\ UNCHANGED <<rpos, display, rlog>>
    /\ UNCHANGED <<connected, sendlog, mpc>>
    /\ UNCHANGED <<tokens, up, sock, peer, nwrites>>
    /\ UNCHANGED <<relayVars, dummyVars, msgrVars>>
    /\ UNCHANGED callVars

\* receive_messages: recv raises socket.timeout, the socket having the
\* timeout connect() set and no byte having arrived in that time.
receive_messages_timeout(p) ==
    /\ rpc[p] = "recv"
    /\ mpc[p] # "done"
    /\ Avail(p) = <<>>
    /\ p \notin closed
    /\ peer[p] = "open"
    /\ rpc' = [rpc EXCEPT ![p] = "except"]
    /\ UNCHANGED <<connected, display, sendlog, mpc, rlog, rlost>>
    /\ UNCHANGED <<relayVars, dummyVars, netVars, msgrVars>>
    /\ UNCHANGED callVars

\* receive_messages: "except Exception: if self.connected: continue; break"
receive_messages_except(p) ==
    /\ rpc[p] = "except"
    /\ rpc' = [rpc EXCEPT ![p] = receive_messages_while(p)]
    /\ UNCHANGED <<connected, display, sendlog, mpc, rlog, rlost>>
    /\ UNCHANGED <<relayVars, dummyVars, netVars, msgrVars>>
    /\ UNCHANGED callVars

\* "self.socket.send(...)" of a client raises on a connection that broke or
\* that the relay closed, and on the socket disconnect() closed.
ClientSendFails(p) == peer[p] # "open" \/ p \in closed

\* (mutant) the flag is left as it was.
AfterSendErrorKept(was_connected) == was_connected

\* send_message's except block: "self.connected = False"
AfterSendError(was_connected) == FALSE

\* send_message(message): the draws are those of encrypt_message.  Each call
\* is logged with its result and with what it did: whether encrypt_message
\* was called, the time slept in it, the socket writes attempted, whether the
\* write raised, the flag afterwards and (history) the peers then in the
\* relay's list.
send_message(p, message, padding_size, fill, base) ==
    /\ Len(sendlog[p]) < MaxSends
    /\ LET entry == [message |-> message, result |-> FALSE, encrypted |-> FALSE,
                     slept |-> 0, writes |-> 0, raised |-> FALSE,
                     connected |-> FALSE, padding_size |-> padding_size,
                     peers |-> {clients[i] : i \in 1..Len(clients)}]
       IN  IF ~connected[p]
           THEN /\ sendlog' = [sendlog EXCEPT ![p] = Append(@, entry)]
                /\ UNCHANGED <<connected, tokens, up, last_send_time, now>>
           ELSE LET encrypted_msg == encrypt_message(p, message, padding_size, fill)
                    t == Len(tokens) + 1
                    did == [entry EXCEPT !.encrypted = TRUE,
                                         !.slept = now' - now]
                IN  /\ encrypt_message_gate(p, base)
                    /\ IF ~encrypted_msg.ok
                       THEN /\ sendlog' = [sendlog EXCEPT ![p] =
                                   Append(@, [did EXCEPT !.connected = TRUE])]
                            /\ UNCHANGED <<connected, tokens, up>>
                       ELSE /\ tokens' = Append(tokens, encrypted_msg.val)
                            /\ IF ClientSendFails(p)
                               THEN /\ connected' = [connected EXCEPT ![p] = AfterSendError(@)]
                                    /\ sendlog' = [sendlog EXCEPT ![p] =
                                           Append(@, [did EXCEPT !.writes = 1,
                                                                 !.raised = TRUE,
                                                                 !.connected = connected'[p]])]
                                    /\ UNCHANGED up
                               ELSE /\ up' = [up EXCEPT ![p] =
                                           BCat(@, <<(<<t, 1, TokenLen(encrypted_msg.val)>>)>>)]
                                    /\ sendlog' = [sendlog EXCEPT ![p] =
                                           Append(@, [did EXCEPT !.writes = 1,
                                                                 !.result = TRUE,
                                                                 !.connected = TRUE])]
                                    /\ UNCHANGED connected
    /\ UNCHANGED <<rpc, display, mpc, rlog, rlost>>
    /\ UNCHANGED <<sock, rpos, peer, nwrites>>
    /\ UNCHANGED <<key, cipher_suite>>
    /\ UNCHANGED <<relayVars, dummyVars>>
    /\ UNCHANGED callVars

\* input_handler: the user types quit (or ends the input): connected = False.
input_quit(p) ==
    /\ mpc[p] = "chat"
    /\ connected[p]
    /\ connected' = [connected EXCEPT ![p] = FALSE]
    /\ UNCHANGED <<rpc, display, sendlog, mpc, rlog, rlost>>
    /\ UNCHANGED <<relayVars, dummyVars, netVars, msgrVars>>
    /\ UNCHANGED callVars

\* secure_zero_memory(data) for a bytes object: the zeros are written to
\* "temp = bytearray(data)", a copy; the result gives the contents of the
\* argument's buffer and of temp when the function returns.
secure_zero_memory(data) ==
    [key |-> data, temp |-> [i \in 1..Len(data) |-> 0]]

\* cleanup: "if self.key: secure_zero_memory(self.key)", then the references
\* are dropped; the buffers keep what they held.  With no key there is no
\* buffer.
cleanup_buffers(m) ==
    IF key[m].ok /\ key[m].val # <<>>
    THEN secure_zero_memory(key[m].val)
    ELSE [key |-> <<>>, temp |-> <<>>]

\* main: start_chat_ui returns once connected is False ("while
\* self.connected: time.sleep(0.1)"), or connect returned False; then
\* disconnect(): connected = False, the socket is closed, messenger.cleanup().
disconnect(p) ==
    /\ mpc[p] = "closing" \/ (mpc[p] = "chat" /\ ~connected[p])
    /\ mpc' = [mpc EXCEPT ![p] = "done"]
    /\ connected' = [connected EXCEPT ![p] = FALSE]
    /\ peer' = [peer EXCEPT ![p] = IF @ = "open" THEN "gone" ELSE @]
    /\ key' = [key EXCEPT ![p] = NoKey]
    /\ cipher_suite' = [cipher_suite EXCEPT ![p] = NoKey]
    /\ private_key' = [private_key EXCEPT ![p] = None]
    /\ public_key' = [public_key EXCEPT ![p] = None]
    /\ shared_secret' = [shared_secret EXCEPT ![p] = None]
    /\ UNCHANGED <<rpc, display, sendlog, rlog, rlost>>
    /\ UNCHANGED <<tokens, up, sock, rpos, nwrites>>
    /\ UNCHANGED <<last_send_time, now>>
    /\ UNCHANGED <<message_counter, ret, timing>>
    /\ UNCHANGED loopVars
    /\ UNCHANGED <<relayVars, dummyVars>>

\* Arguments of _unpad_message that are no frame: too short, with a length
\* field larger than what follows, and too short and not UTF-8 either.
NoFrames == {<<0, 0>>, <<0, 0, 0, 9, 104>>, <<255, 254>>}

\* The relay writes one envelope to p's socket ("client.send(data)" of some
\* handler, or of the dummy-traffic thread).
relay_send(p, d) ==
    /\ peer[p] = "open"
    /\ p \notin closed
    /\ Len(sock[p]) < MaxDeliveries
    /\ LET tok == FernetEncrypt(d.key, d.plain, PAD_MIN, 0)
           t == Len(tokens) + 1
       IN  /\ tokens' = Append(tokens, tok)
           /\ sock' = [sock EXCEPT ![p] =
                  SockSend(@, [src |-> Server, seq |-> Len(@) + 1,
                               data |-> <<(<<t, 1, TokenLen(tok)>>)>>])]
    /\ UNCHANGED <<up, rpos, peer, nwrites>>
    /\ UNCHANGED <<relayVars, dummyVars, clientVars, msgrVars>>
    /\ UNCHANGED callVars

\* The relay closes p's socket ("client.close()" after a failed send, or
\* stop()).
relay_close(p) ==
    /\ peer[p] = "open"
    /\ p \notin closed
    /\ closed' = closed \cup {p}
    /\ UNCHANGED <<running, spc, clients, hpc, hidx, hcur, hdata, hseq, hview, hfail>>
    /\ UNCHANGED <<dummyVars, netVars, clientVars, msgrVars>>
    /\ UNCHANGED callVars

NextClient ==
    \/ server_start
    \/ \E p \in Users, ok \in BOOLEAN : client_connect(p, ConnectionString, ok)
    \/ \E p \in Users : receive_messages_recv(p)
    \/ \E p \in Users : receive_messages_timeout(p)
    \/ \E p \in Users : receive_messages_except(p)
    \/ \E p \in Users, n \in PlainLens : send_message(p, Text(n), PAD_MIN, 0, 0)
    \/ \E p \in Users : input_quit(p)
    \/ \E p \in Users : disconnect(p)
    \/ \E p \in Users, d \in Deliveries : relay_send(p, d)
    \/ \E p \in Users : relay_close(p)
    \/ \E p \in Users : peer_gone(p)

\* One client and what the relay does to its connection.
SpecClient == Init /\ [][NextClient]_vars

\* Connection strings a user may type: the one the server printed, the same
\* with white space around it, and malformed ones: no colon, an address with
\* a scheme (three fields), nothing at all, a second field that is base64
\* of something other than a key, and one that is not base64.
ConnStrings ==
    {ConnectionString,
     <<32>> \o ConnectionString \o <<10>>,
     OnionAddress \o GeneratedToken,
     <<104, 58, 47, 47>> \o ConnectionString,
     <<>>,
     OnionAddress \o <<COLON, 81, 85, 74, 68>>,
     OnionAddress \o <<COLON, 65>>}

\* The relay forwards to p an envelope a holder of the key sealed around
\* bytes that are no frame.
relay_send_legacy(p, frame) ==
    /\ peer[p] = "open"
    /\ p \notin closed
    /\ Len(sock[p]) < MaxDeliveries
    /\ LET tok == FernetSeal(GeneratedSuite, frame)
           t == Len(tokens) + 1
       IN  /\ tokens' = Append(tokens, tok)
           /\ sock' = [sock EXCEPT ![p] =
                  SockSend(@, [src |-> Server, seq |-> Len(@) + 1,
                               data |-> <<(<<t, 1, TokenLen(tok)>>)>>])]
    /\ UNCHANGED <<up, rpos, peer, nwrites>>
    /\ UNCHANGED <<relayVars, dummyVars, clientVars, msgrVars>>
    /\ UNCHANGED callVars

\* One session of a client, with short texts only.
NextSession ==
    \/ server_start
    \/ \E p \in Users, cs \in ConnStrings, ok \in BOOLEAN : client_connect(p, cs, ok)
    \/ \E p \in Users : receive_messages_recv(p)
    \/ \E p \in Users : receive_messages_timeout(p)
    \/ \E p \in Users : receive_messages_except(p)
    \/ \E p \in Users : send_message(p, Text(2), PAD_MIN, 0, 0)
    \/ \E p \in Users : input_quit(p)
    \/ \E p \in Users : disconnect(p)
    \/ \E p \in Users : relay_send(p, [key |-> GeneratedSuite, plain |-> Text(2)])
    \/ \E p \in Users, frame \in NoFrames : relay_send_legacy(p, frame)
    \/ \E p \in Users : relay_close(p)
    \/ \E p \in Users : peer_gone(p)

\* The threads of the client run whenever they can; the user and the
\* network are under no such obligation.
SpecSession ==
    Init /\ [][NextSession]_vars /\ \A p \in Users :
        /\ WF_vars(receive_messages_recv(p))
        /\ WF_vars(receive_messages_except(p))
        /\ WF_vars(disconnect(p))

NextChat ==
    \/ server_start
    \/ \E p \in Peers : client_connect(p, ConnectionString, TRUE)
    \/ \E p \in Peers : accept(p)
    \/ \E p \in Peers : handle_client_recv(p)
    \/ \E p \in Peers : handle_client_for(p)
    \/ \E p \in Peers : receive_messages_recv(p)
    \/ \E p \in Users, n \in PlainLens : send_message(p, Text(n), PAD_MIN, 0, 0)

\* Clients A, B and C on one relay; A types, nobody leaves.
SpecChat == Init /\ [][NextChat]_vars

\* ------------------------------------------------- SecureMessenger, called
\* The methods of SecureMessenger called one at a time on two messengers, as
\* the server, the client and the tests of the repository call them.
Callers == {"A", "B"}

MaxEncrypts == 1

\* No call enters the timing gate once the clock (in ms) has reached this.
MaxClock == 4000

\* Texts handed to encrypt_message: "" and "h\u00e9".
Plaintexts == {<<>>, <<104, 233>>}

\* Key strings handed to set_key: the token generate_key returns, the same
\* without its "=" and with white space around it, the token of another
\* key, "QUJD" (base64 of "ABC") and "A" (not base64).
KeyStrings ==
    {GeneratedToken,
     <<32>> \o SubSeq(GeneratedToken, 1, Len(GeneratedToken) - 1) \o <<10>>,
     generate_key(RawKey(2)).result,
     <<81, 85, 74, 68>>,
     <<65>>}

call_generate_key(m, raw) ==
    /\ key' = [key EXCEPT ![m] = generate_key(raw).key]
    /\ cipher_suite' = [cipher_suite EXCEPT ![m] = generate_key(raw).cipher_suite]
    /\ ret' = [ret EXCEPT ![m] = [op |-> "generate_key", arg |-> raw, draw |-> 0,
                                  result |-> generate_key(raw).result]]
    /\ UNCHANGED <<last_send_time, now>>
    /\ UNCHANGED <<message_counter, private_key, public_key, shared_secret, timing>>
    /\ UNCHANGED loopVars
    /\ UNCHANGED <<relayVars, dummyVars, netVars, clientVars>>

call_set_key(m, key_str) ==
    /\ \E keyed \in {set_key(m, key_str)} :
           /\ key' = [key EXCEPT ![m] = keyed.key]
           /\ cipher_suite' = [cipher_suite EXCEPT ![m] = keyed.cipher_suite]
           /\ ret' = [ret EXCEPT ![m] = [op |-> "set_key", arg |-> key_str, draw |-> 0,
                                         result |-> keyed.result]]
    /\ UNCHANGED <<last_send_time, now>>
    /\ UNCHANGED <<message_counter, private_key, public_key, shared_secret, timing>>
    /\ UNCHANGED loopVars
    /\ UNCHANGED <<relayVars, dummyVars, netVars, clientVars>>

\* encrypt_message(message): the result is the text of the token, here the
\* bytes of the new entry of tokens.
call_encrypt_message(m, message, padding_size, fill, base) ==
    /\ cipher_suite[m] # NoKey => Len(tokens) < MaxEncrypts /\ now < MaxClock
    /\ encrypt_message_gate(m, base)
    /\ \E encrypted \in {encrypt_message(m, message, padding_size, fill)} :
           IF encrypted.ok
           THEN /\ tokens' = Append(tokens, encrypted.val)
                /\ ret' = [ret EXCEPT ![m] =
                              [op |-> "encrypt_message", arg |-> message, draw |-> padding_size,
                               result |-> Some(<<(<<Len(tokens) + 1, 1,
                                                   TokenLen(encrypted.val)>>)>>)]]
           ELSE /\ UNCHANGED tokens
                /\ ret' = [ret EXCEPT ![m] =
                              [op |-> "encrypt_message", arg |-> message, draw |-> padding_size,
                               result |-> None]]
    /\ UNCHANGED <<key, cipher_suite>>
    /\ UNCHANGED <<message_counter, private_key, public_key, shared_secret, timing>>
    /\ UNCHANGED loopVars
    /\ UNCHANGED <<up, sock, rpos, peer, nwrites>>
    /\ UNCHANGED <<relayVars, dummyVars, clientVars>>

call_decrypt_message(m, encrypted_message) ==
    /\ ret' = [ret EXCEPT ![m] = [op |-> "decrypt_message", arg |-> encrypted_message, draw |-> 0,
                                  result |-> decrypt_message(m, encrypted_message)]]
    /\ UNCHANGED <<key, cipher_suite, last_send_time, now>>
    /\ UNCHANGED <<message_counter, private_key, public_key, shared_secret, timing>>
    /\ UNCHANGED loopVars
    /\ UNCHANGED <<relayVars, dummyVars, netVars, clientVars>>

\* generate_dummy_message(): encrypt_message of "DUMMY:" and
\* secrets.token_hex(secrets.randbelow(100) + 50); its result is returned.
call_generate_dummy_message(m, n, padding_size, fill, base) ==
    call_encrypt_message(m, DummyPlaintext(n), padding_size, fill, base)

\* A cleanup that drops the key and leaves the cipher suite in place.
call_cleanup_keeps_suite(m) ==
    /\ private_key' = [private_key EXCEPT ![m] = None]
    /\ public_key' = [public_key EXCEPT ![m] = None]
    /\ key' = [key EXCEPT ![m] = NoKey]
    /\ shared_secret' = [shared_secret EXCEPT ![m] = None]
    /\ ret' = [ret EXCEPT ![m] = [op |-> "cleanup", arg |-> <<>>, draw |-> 0, result |-> None,
                                  buffers |-> cleanup_buffers(m)]]
    /\ UNCHANGED <<cipher_suite, last_send_time, now, message_counter, timing>>
    /\ UNCHANGED loopVars
    /\ UNCHANGED <<relayVars, dummyVars, netVars, clientVars>>

\* cleanup()
call_cleanup(m) ==
    /\ private_key' = [private_key EXCEPT ![m] = None]
    /\ public_key' = [public_key EXCEPT ![m] = None]
    /\ cipher_suite' = [cipher_suite EXCEPT ![m] = NoKey]
    /\ key' = [key EXCEPT ![m] = NoKey]
    /\ shared_secret' = [shared_secret EXCEPT ![m] = None]
    /\ ret' = [ret EXCEPT ![m] = [op |-> "cleanup", arg |-> <<>>, draw |-> 0, result |-> None,
                                  buffers |-> cleanup_buffers(m)]]
    /\ UNCHANGED <<last_send_time, now, message_counter, timing>>
    /\ UNCHANGED loopVars
    /\ UNCHANGED <<relayVars, dummyVars, netVars, clientVars>>

NextMessenger ==
    \/ \E m \in Callers : call_generate_key(m, RawKey(IF m = "A" THEN 1 ELSE 2))
    \/ \E m \in Callers, key_str \in KeyStrings : call_set_key(m, key_str)
    \/ \E m \in Callers, message \in Plaintexts :
           call_encrypt_message(m, message, PAD_MIN, 0, 0)
    \/ \E m \in Callers, t \in 1..Len(tokens) : call_decrypt_message(m, Whole(t))
    \/ \E m \in Callers : call_decrypt_message(m, <<>>)
    \/ \E m \in Callers : call_cleanup(m)

\* Two messengers and every order of calls of their methods.
SpecMessenger == Init /\ [][NextMessenger]_vars

\* The byte secrets.token_bytes fills the padding with.
FillByte == 255

\* Texts for one keyed messenger: "", "h\u00e9" and texts of 2, 500, 4000 and
\* 4050 characters; 4 + 4050 + 16 is less than the largest frame.
EnvelopeTexts == {<<>>, <<104, 233>>, Text(2), Text(500), Text(4000), Text(4050)}

\* Strings made of the text of token t that are no envelope: the text
\* without its last byte, and the text with its first byte altered.
Corrupted(t) ==
    {<<(<<t, 1, TokenLen(tokens[t]) - 1>>)>>,
     <<(<<t, 1, TokenLen(tokens[t]), 1>>)>>}

NextEnvelope ==
    \/ \E m \in Users : call_generate_key(m, RawKey(1))
    \/ \E m \in Users : call_set_key(m, generate_key(RawKey(2)).result)
    \/ \E m \in Users, message \in EnvelopeTexts, r \in RandBelow(PAD_RANGE) :
           call_encrypt_message(m, message, r + PAD_MIN, FillByte, 0)
    \/ \E m \in Users, t \in 1..Len(tokens) : call_decrypt_message(m, Whole(t))
    \/ \E m \in Users, t \in 1..Len(tokens) :
           \E data \in Corrupted(t) : call_decrypt_message(m, data)
    \/ \E m \in Users : call_decrypt_message(m, <<>>)
    \/ \E m \in Users, n \in RandBelow(100) :
           call_generate_dummy_message(m, n, PAD_MIN, FillByte, 0)
    \/ \E m \in Users : call_cleanup(m)

\* One messenger, keyed one way or the other, sealing texts of every size
\* with the shortest and the longest padding and opening them again.
SpecEnvelope == Init /\ [][NextEnvelope]_vars

\* ------------------------------------------------------- frames, called
\* _pad_message and _unpad_message called directly on one messenger.
FrameLens == {0, 2, 480, 4000, 4050}

\* _pad_message(message) with message a bytes object; padding_size is the
\* draw secrets.randbelow(64) + 16.  None stands for the StopIteration raised
\* when no size of MESSAGE_SIZES is large enough.
call_pad_message(m, message_bytes, padding_size) ==
    /\ ret' = [ret EXCEPT ![m] =
                  [op |-> "_pad_message", arg |-> message_bytes, draw |-> padding_size,
                   result |-> pad_message(message_bytes, padding_size, FillByte)]]
    /\ UNCHANGED <<message_counter, private_key, public_key, shared_secret, timing>>
    /\ UNCHANGED loopVars
    /\ UNCHANGED <<relayVars, dummyVars, netVars, clientVars, msgrVars>>

call_unpad_message(m, padded_data) ==
    /\ ret' = [ret EXCEPT ![m] =
                  [op |-> "_unpad_message", arg |-> padded_data, draw |-> 0,
                   result |-> unpad_message(padded_data)]]
    /\ UNCHANGED <<message_counter, private_key, public_key, shared_secret, timing>>
    /\ UNCHANGED loopVars
    /\ UNCHANGED <<relayVars, dummyVars, netVars, clientVars, msgrVars>>

NextFrames ==
    \/ \E m \in Users, n \in FrameLens, r \in 0..(PAD_RANGE - 1) :
           call_pad_message(m, Text(n), r + PAD_MIN)
    \/ \E m \in Users :
           /\ ret[m].op = "_pad_message"
           /\ ret[m].result.ok
           /\ call_unpad_message(m, ret[m].result.val)
    \/ \E m \in Users, padded_data \in NoFrames : call_unpad_message(m, padded_data)

\* Frames built and taken apart, for every draw of the padding length.
SpecFrames == Init /\ [][NextFrames]_vars

\* ===================================================================
\* Properties of the relay
\* ===================================================================

\* Peer r has been sent chunk k of peer p.
Got(r, p, k) == \E i \in 1..Len(sock[r]) : sock[r][i].src = p /\ sock[r][i].seq = k

\* Handler p ends the broadcast of its current chunk in this step.
EndsBroadcast(p) == hpc[p] = "for" /\ hpc'[p] = "loop"

\* C1: when a send of the chunk to some peer Q failed during handler P's
\* broadcast, then at the end of the broadcast every failed peer is out of
\* self.clients and closed, and every other peer that was in self.clients
\* when the chunk arrived and still is (other than P) has been sent the chunk.
C1_FanOutUnderSendFailure ==
    [][\A p \in Peers :
         (EndsBroadcast(p) /\ hfail[p] # {}) =>
            /\ \A q \in hfail[p] : ~InList(q, clients') /\ q \in closed'
            /\ \A r \in hview[p] \ ({p} \cup hfail[p]) :
                  InList(r, clients') => Got(r, p, hseq[p])]_vars

\* C2: when no send failed during handler P's broadcast of a chunk, every
\* peer that was in self.clients when the chunk arrived and still is (other
\* than P) has been sent exactly those bytes exactly once, and P nothing of it.
C2_FanOutExactlyOnce ==
    [][\A p \in Peers :
         (EndsBroadcast(p) /\ hfail[p] = {}) =>
            /\ \A r \in hview[p] \ {p} :
                  InList(r, clients') =>
                     /\ Cardinality({i \in 1..Len(sock[r]) :
                            sock[r][i].src = p /\ sock[r][i].seq = hseq[p]}) = 1
                     /\ \A i \in 1..Len(sock[r]) :
                            (sock[r][i].src = p /\ sock[r][i].seq = hseq[p])
                               => sock[r][i].data = hdata[p]
            /\ ~Got(p, p, hseq[p])]_vars

\* Handler p is in the middle of "for client in self.clients".
Iterating(p) == hpc[p] \in {"for", "except", "remove"}

\* C3: while a handler thread is in the middle of iterating self.clients and
\* does not itself take the step, no step adds to or removes from the list.
C3_MutualExclusion ==
    [][\A p \in Peers :
         (Iterating(p) /\ hpc'[p] = hpc[p] /\ hidx'[p] = hidx[p])
            => clients' = clients]_vars

\* C6: per-source FIFO: on every peer socket, the chunks of one source appear
\* in the order the relay received them.
C6_PerSourceFifo ==
    \A q \in Peers : \A i, j \in 1..Len(sock[q]) :
        (i < j /\ sock[q][i].src = sock[q][j].src)
            => sock[q][i].seq <= sock[q][j].seq

\* C6 witness: some peer has been sent two successive chunks of one source.
C6_Witness ==
    \E q \in Peers : \E i, j \in 1..Len(sock[q]) :
        /\ i < j
        /\ sock[q][i].src = sock[q][j].src
        /\ sock[q][i].seq < sock[q][j].seq

\* ===================================================================
\* Properties of the client
\* ===================================================================

\* The messages of p's send_message calls that returned True, in order.
RECURSIVE Sent(_)
Sent(log) ==
    IF log = <<>> THEN <<>>
    ELSE Sent(SubSeq(log, 1, Len(log) - 1))
         \o (IF log[Len(log)].result THEN <<log[Len(log)].message>> ELSE <<>>)

\* Nothing is on its way: the relay has read and forwarded all that was
\* written to it and every client has read all that was written to it.
Quiescent ==
    /\ \A p \in Peers : up[p] = <<>> /\ hpc[p] = "loop"
    /\ \A p \in Peers : rpc[p] = "recv" /\ Avail(p) = <<>>

\* C4: end-to-end delivery: when A sent all its messages with A, B and C in
\* the relay's list, and nothing is on its way any more, B and C each have
\* displayed exactly the messages A sent, in order, each once.
C4_EndToEndDelivery ==
    (/\ Quiescent
     /\ \A i \in 1..Len(sendlog["A"]) : sendlog["A"][i].peers = Peers)
        => \A r \in Peers \ {"A"} : display[r] = Sent(sendlog["A"])

\* C5: read chunk size: the text of every envelope encrypt_message produced,
\* whatever the permitted frame size inside it, is not longer than the read
\* chunk of handle_client and receive_messages.
C5_EnvelopeFitsReadChunk ==
    \A t \in 1..Len(tokens) :
        (\E i \in 1..Len(MESSAGE_SIZES) : Len(TokenFrame(tokens[t])) = MESSAGE_SIZES[i])
            => TokenLen(tokens[t]) <= RECV_SIZE

\* C7: a lost connection ends the session: once the socket read has returned
\* end-of-stream or raised on a broken connection, connected becomes False.
C7_LostConnectionEndsSession ==
    \A p \in Peers : rlost[p] ~> ~connected[p]

\* The receive thread of p reads bytes in this step.
RecvData(p) == rpc[p] = "recv" /\ rpos'[p] > rpos[p]

\* C8: sink rule: a received frame is displayed if and only if decrypt_message
\* succeeds on it and the plaintext does not start with "DUMMY:"; the empty
\* plaintext included.
C8_SinkRule ==
    [][\A p \in Peers :
         RecvData(p) =>
            LET decrypted_msg == decrypt_message(p, Frame(p))
            IN  IF decrypted_msg.ok /\ ~StartsWith(decrypted_msg.val, DUMMY_MARKER)
                THEN display'[p] = Append(display[p], decrypted_msg.val)
                ELSE display'[p] = display[p]]_vars

\* C9: receive loop resilience: the step that receives a frame decrypt_message
\* fails on displays nothing, leaves connected as it is, leaves the thread in
\* its loop (while connected is True), and consumes just that frame, so that
\* the next read starts at the bytes after it.
C9_ReceiveLoopResilience ==
    [][\A p \in Peers :
         (RecvData(p) /\ ~decrypt_message(p, Frame(p)).ok) =>
            /\ display'[p] = display[p]
            /\ connected'[p] = connected[p]
            /\ connected[p] => rpc'[p] = "recv"
            /\ rpos'[p] = rpos[p] + BLen(Frame(p))
            /\ cipher_suite'[p] = cipher_suite[p]]_vars

\* C9 witness: a connected client whose receive loop displayed a message
\* after a frame it could not decrypt.
C9_Witness ==
    \E p \in Peers :
        /\ connected[p]
        /\ rpc[p] = "recv"
        /\ \E i, j \in 1..Len(rlog[p]) :
              i < j /\ rlog[p][i] = "failed" /\ rlog[p][j] = "shown"

\* C10: client send failure: a send_message call whose socket write raised
\* returned False, left connected False and made one write attempt; every
\* later call returned False without encrypting, sleeping or writing.
C10_SendFailure ==
    \A p \in Peers : \A i \in 1..Len(sendlog[p]) :
        sendlog[p][i].raised =>
            /\ ~sendlog[p][i].result
            /\ ~sendlog[p][i].connected
            /\ sendlog[p][i].writes = 1
            /\ \A j \in (i + 1)..Len(sendlog[p]) :
                  /\ ~sendlog[p][j].result
                  /\ ~sendlog[p][j].encrypted
                  /\ sendlog[p][j].slept = 0
                  /\ sendlog[p][j].writes = 0

\* C10 witness: a send_message call after one whose socket write raised.
C10_Witness ==
    \E p \in Peers : \E i, j \in 1..Len(sendlog[p]) :
        i < j /\ sendlog[p][i].raised

\* ===================================================================
\* Properties of the messenger
\* ===================================================================

\* The call of method op on messenger m returns in this step.
Returns(m, op) == ret'[m] # ret[m] /\ ret'[m].op = op

\* The fields of messenger m other than the clock are as they were.
FieldsKept(m) ==
    /\ key'[m] = key[m]
    /\ cipher_suite'[m] = cipher_suite[m]
    /\ private_key'[m] = private_key[m]
    /\ public_key'[m] = public_key[m]
    /\ shared_secret'[m] = shared_secret[m]
    /\ message_counter'[m] = message_counter[m]
    /\ last_send_time'[m] = last_send_time[m]

\* C11: unkeyed state: on a messenger with no cipher suite, freshly
\* constructed or after cleanup(), encrypt_message and decrypt_message return
\* None, the call does not sleep (the clock stands still) and last_send_time,
\* message_counter and the key fields are left as they were.
C11_UnkeyedRejects ==
    [][\A m \in Callers :
         (/\ cipher_suite[m] = NoKey
          /\ Returns(m, "encrypt_message") \/ Returns(m, "decrypt_message"))
         => /\ ret'[m].result = None
            /\ now' = now
            /\ FieldsKept(m)]_vars

\* C11 witness: encrypt_message has returned None on a messenger that had
\* encrypted before (last_send_time is set) and was then cleaned up.
C11_Witness ==
    \E m \in Callers :
        /\ cipher_suite[m] = NoKey
        /\ last_send_time[m] > 0
        /\ ret[m].op = "encrypt_message"
        /\ ret[m].result = None

\* C12: failed key decode leaves no partial state: whenever set_key returns
\* False, key and cipher_suite of the messenger are what they were before the
\* call.
C12_FailedSetKeyKeepsState ==
    [][\A m \in Callers :
         (Returns(m, "set_key") /\ ~ret'[m].result)
         => /\ key'[m] = key[m]
            /\ cipher_suite'[m] = cipher_suite[m]]_vars

\* C13: connection-string shape: connect returns False for every connection
\* string whose number of colon-separated fields is not 2, and then it has
\* not called set_key (key and cipher_suite are as before), has opened no
\* socket, has started no receive thread and has not set connected.
C13_ConnectionStringShape ==
    [][\A p \in Users :
         (Returns(p, "connect") /\ FieldCount(ret'[p].arg) # 2)
         => /\ ~ret'[p].result
            /\ key'[p] = key[p]
            /\ cipher_suite'[p] = cipher_suite[p]
            /\ peer'[p] = peer[p]
            /\ rpc'[p] = rpc[p]
            /\ ~connected'[p]]_vars

\* C13 witness: with the relay accepting connections, connect has returned
\* for a string of three or more fields.
C13_Witness ==
    \E p \in Users :
        /\ spc = "accept"
        /\ ret[p].op = "connect"
        /\ FieldCount(ret[p].arg) > 2

\* C14: connection-token round trip: set_key on another messenger with the
\* token generate_key returned returns True and leaves that messenger with
\* the key (and the cipher suite) of the generator; and a message one of two
\* messengers with the same cipher suite encrypted decrypts on the other to
\* the same plaintext.
C14_TokenRoundTrip ==
    [][\A m, n \in Callers :
         m # n =>
         /\ (/\ ret[m].op = "generate_key"
             /\ Returns(n, "set_key")
             /\ ret'[n].arg = ret[m].result)
            => /\ ret'[n].result
               /\ key'[n] # NoKey
               /\ key'[n] = key[m]
               /\ cipher_suite'[n] # NoKey
               /\ cipher_suite'[n] = cipher_suite[m]
         /\ (/\ ret[m].op = "encrypt_message"
             /\ ret[m].result.ok
             /\ cipher_suite[n] = cipher_suite[m]
             /\ Returns(n, "decrypt_message")
             /\ ret'[n].arg = ret[m].result.val)
            => ret'[n].result = Some(ret[m].arg)]_vars

\* C14 witness: generate_key on one messenger, set_key with its token on the
\* other.
C14_Witness ==
    \E m, n \in Callers :
        /\ m # n
        /\ ret[m].op = "generate_key"
        /\ ret[n].op = "set_key"
        /\ ret[n].arg = ret[m].result
        /\ key[n] = key[m]

\* C15: frame round trip: for every plaintext of 0 to 4000 bytes and every
\* padding length drawn, _unpad_message of the frame _pad_message returned
\* is the plaintext.
C15_FrameRoundTrip ==
    [][\A m \in Users :
         /\ (Returns(m, "_pad_message") /\ Len(ret'[m].arg) <= 4000)
            => ret'[m].result.ok
         /\ (/\ ret[m].op = "_pad_message"
             /\ Len(ret[m].arg) <= 4000
             /\ ret[m].result.ok
             /\ Returns(m, "_unpad_message")
             /\ ret'[m].arg = ret[m].result.val)
            => ret'[m].result = Some(ret[m].arg)]_vars

\* C15 witness: _unpad_message has returned the 4000 bytes of a frame.
C15_Witness ==
    \E m \in Users :
        /\ ret[m].op = "_unpad_message"
        /\ ret[m].result.ok
        /\ Len(ret[m].result.val) = 4000

\* The bucket of a plaintext of n bytes: the smallest size of MESSAGE_SIZES
\* that holds the length field, the plaintext and the shortest padding.
Bucket(n) == TargetSize(4 + n + PAD_MIN)

\* C16: frame size rule: for every plaintext and every padding length drawn,
\* the frame _pad_message returns has the length of the smallest size of
\* MESSAGE_SIZES that is at least 4 + len(P) + 16, 16 being the shortest
\* padding.
C16_FrameSizeRule ==
    [][\A m \in Users :
         (Returns(m, "_pad_message") /\ ret'[m].result.ok)
         => Len(ret'[m].result.val) = Bucket(Len(ret'[m].arg))]_vars

\* C17: frame length hides the padding choice: two runs of _pad_message, one
\* after the other, on plaintexts of the same bucket return frames of the same
\* length, whatever the two padding lengths drawn.
C17_LengthHidesPadding ==
    [][\A m \in Users :
         (/\ ret[m].op = "_pad_message"
          /\ ret[m].result.ok
          /\ Returns(m, "_pad_message")
          /\ ret'[m].result.ok
          /\ Bucket(Len(ret'[m].arg)) = Bucket(Len(ret[m].arg)))
         => Len(ret'[m].result.val) = Len(ret[m].result.val)]_vars

\* C18: frame length membership: every frame _pad_message returns has a
\* length that is one of MESSAGE_SIZES.
C18_FrameLengthMembership ==
    [][\A m \in Users :
         (Returns(m, "_pad_message") /\ ret'[m].result.ok)
         => \E i \in 1..Len(MESSAGE_SIZES) :
               Len(ret'[m].result.val) = MESSAGE_SIZES[i]]_vars

\* C18 witness: _pad_message has returned a frame for a plaintext of 4050
\* bytes, for which it raises when the padding drawn is longer than 42.
C18_Witness ==
    \E m \in Users :
        /\ ret[m].op = "_pad_message"
        /\ ret[m].result.ok
        /\ Len(ret[m].arg) = 4050

\* A text fits the largest frame: its bytes, the length field and the
\* shortest padding are no more than the last of MESSAGE_SIZES.
FitsLargestFrame(message) ==
    4 + Len(Utf8Encode(message)) + PAD_MIN <= MESSAGE_SIZES[Len(MESSAGE_SIZES)]

\* C19: envelope round trip: on a messenger that holds a key, encrypt_message
\* of a plaintext that fits the largest frame returns an envelope, and
\* decrypt_message of that envelope on the same messenger returns the
\* plaintext.
C19_EnvelopeRoundTrip ==
    [][\A m \in Callers :
         /\ (/\ cipher_suite[m] # NoKey
             /\ Returns(m, "encrypt_message")
             /\ FitsLargestFrame(ret'[m].arg))
            => ret'[m].result.ok
         /\ (/\ ret[m].op = "encrypt_message"
             /\ ret[m].result.ok
             /\ Returns(m, "decrypt_message")
             /\ ret'[m].arg = ret[m].result.val)
            => ret'[m].result = Some(ret[m].arg)]_vars

\* C20: empty plaintext round trip: on a keyed messenger encrypt_message("")
\* returns an envelope, and decrypt_message of it returns the empty string as
\* a success, which is not the None of a failure.
C20_EmptyRoundTrip ==
    [][\A m \in Callers :
         /\ (/\ cipher_suite[m] # NoKey
             /\ Returns(m, "encrypt_message")
             /\ ret'[m].arg = <<>>)
            => ret'[m].result.ok
         /\ (/\ ret[m].op = "encrypt_message"
             /\ ret[m].arg = <<>>
             /\ ret[m].result.ok
             /\ Returns(m, "decrypt_message")
             /\ ret'[m].arg = ret[m].result.val)
            => /\ ret'[m].result.ok
               /\ ret'[m].result.val = <<>>
               /\ ret'[m].result # None]_vars

\* C20 witness: decrypt_message has returned "" for an envelope.
C20_Witness ==
    \E m \in Callers :
        /\ ret[m].op = "decrypt_message"
        /\ ret[m].arg # <<>>
        /\ ret[m].result = Some(<<>>)

\* C21: decrypt is total: for every input (an envelope, a truncated or
\* altered one, one sealed under another key, other text) and every state of
\* the messenger, decrypt_message returns a plaintext or None and does not
\* raise; a call that returns None changes no field of the messenger, nor
\* the clock.
C21_DecryptTotal ==
    [][\A m \in Users :
         Returns(m, "decrypt_message")
         => /\ ret'[m].result # Raised
            /\ ret'[m].result.ok \/ ret'[m].result = None
            /\ ~ret'[m].result.ok => FieldsKept(m) /\ now' = now]_vars

\* C21 witness: on a keyed messenger decrypt_message has returned None for
\* an envelope with an altered byte.
C21_Witness ==
    \E m \in Users :
        /\ cipher_suite[m] # NoKey
        /\ ret[m].op = "decrypt_message"
        /\ Len(ret[m].arg) = 1
        /\ Len(ret[m].arg[1]) = 4
        /\ ret[m].result = None

\* The chunk p's receive thread reads in this step is an envelope that
\* authenticates under p's key and whose frame _unpad_message rejects.
BadFrameRead(p) ==
    /\ RecvData(p)
    /\ FernetDecrypt(cipher_suite[p], Frame(p)).ok
    /\ ~unpad_message(FernetDecrypt(cipher_suite[p], Frame(p)).val).ok

\* C22: frame length mismatch is a dropped message: when an envelope
\* authenticates but its frame is shorter than 4 bytes or declares more
\* plaintext than follows the length field, decrypt_message returns None and
\* the receive loop displays nothing for it.
C22_LengthMismatchDropped ==
    [][\A p \in Users :
         BadFrameRead(p)
         => /\ ~decrypt_message(p, Frame(p)).ok
            /\ display'[p] = display[p]]_vars

\* C23: message counter: message_counter increases by exactly one on every
\* encrypt_message call that returns an envelope, and no step decreases or
\* resets it.
C23_MessageCounter ==
    [][\A m \in Users :
         /\ (Returns(m, "encrypt_message") /\ ret'[m].result.ok)
            => message_counter'[m] = message_counter[m] + 1
         /\ message_counter'[m] >= message_counter[m]]_vars

\* ---------------------------------------------------------------------------
\* The timing gate step by step: one caller per messenger, the clock moving
\* between the calls and during the sleep.

TimingUsers == {"A"}
MaxGateClock == 6000
IdleTimes == {100, 600}
\* time.sleep(delay) suspends for at least delay.
Oversleep == {0, 7}
BaseDraws == RandBelow(MAX_MESSAGE_DELAY - MIN_MESSAGE_DELAY)

\* last_send_time written before the sleep.
StampWhileBlockedEarly(m) ==
    now

\* The value of last_send_time while the caller sleeps: the assignment
\* follows time.sleep, so it is still the previous one.
StampWhileBlocked(m) ==
    last_send_time[m]

\* The caller is outside encrypt_message and time passes.
timing_idle(m, d) ==
    /\ timing[m].pc = "idle"
    /\ now < MaxGateClock
    /\ now' = now + d
    /\ UNCHANGED <<key, cipher_suite, last_send_time>>
    /\ UNCHANGED <<message_counter, private_key, public_key, shared_secret, ret, timing>>
    /\ UNCHANGED loopVars
    /\ UNCHANGED <<relayVars, dummyVars, netVars, clientVars>>

\* encrypt_message on a keyed messenger enters _apply_timing_obfuscation:
\* current_time, time_since_last and delay are computed, and time.sleep(delay)
\* begins.
timing_enter(m, base) ==
    /\ timing[m].pc = "idle"
    /\ cipher_suite[m] # NoKey
    /\ now < MaxGateClock
    /\ timing' = [timing EXCEPT ![m] = [pc |-> "sleep", prev |-> last_send_time[m],
                                        entered |-> now, delay |-> TimingDelay(m, base)]]
    /\ last_send_time' = [last_send_time EXCEPT ![m] = StampWhileBlocked(m)]
    /\ UNCHANGED <<key, cipher_suite, now>>
    /\ UNCHANGED <<message_counter, private_key, public_key, shared_secret, ret>>
    /\ UNCHANGED loopVars
    /\ UNCHANGED <<relayVars, dummyVars, netVars, clientVars>>

\* time.sleep returns, "self.last_send_time = time.time()".
timing_leave(m, late) ==
    /\ timing[m].pc = "sleep"
    /\ now' = timing[m].entered + timing[m].delay + late
    /\ last_send_time' = [last_send_time EXCEPT ![m] = now']
    /\ timing' = [timing EXCEPT ![m].pc = "idle"]
    /\ UNCHANGED <<key, cipher_suite>>
    /\ UNCHANGED <<message_counter, private_key, public_key, shared_secret, ret>>
    /\ UNCHANGED loopVars
    /\ UNCHANGED <<relayVars, dummyVars, netVars, clientVars>>

NextTiming ==
    \/ \E m \in TimingUsers : timing[m].pc = "idle" /\ call_generate_key(m, RawKey(1))
    \/ \E m \in TimingUsers, d \in IdleTimes : timing_idle(m, d)
    \/ \E m \in TimingUsers, base \in BaseDraws : timing_enter(m, base)
    \/ \E m \in TimingUsers, late \in Oversleep : timing_leave(m, late)

SpecTiming == Init /\ [][NextTiming]_vars

\* C24: on a keyed messenger used by one caller, each new value of
\* last_send_time is at least MIN_MESSAGE_DELAY after the one it replaces.
C24_MinimumSpacing ==
    [][\A m \in TimingUsers :
         (timing[m].pc = "sleep" /\ timing'[m].pc = "idle")
         => last_send_time'[m] - last_send_time[m] >= MIN_MESSAGE_DELAY]_vars

\* Two calls have passed the gate, the second one entered less than
\* MIN_MESSAGE_DELAY after the first had set last_send_time.
C24_Witness ==
    \E m \in TimingUsers :
        /\ timing[m].pc = "idle"
        /\ cipher_suite[m] # NoKey
        /\ timing[m].prev > 0
        /\ timing[m].entered - timing[m].prev < MIN_MESSAGE_DELAY
        /\ last_send_time[m] > timing[m].prev

\* C25: the time _apply_timing_obfuscation blocks its caller is at least
\* MIN_MESSAGE_DELAY and at most MAX_MESSAGE_DELAY, the deficit included.
C25_BoundedDelay ==
    \A m \in TimingUsers :
        timing[m].pc = "sleep"
        => /\ timing[m].delay >= MIN_MESSAGE_DELAY
           /\ timing[m].delay <= MAX_MESSAGE_DELAY

\* C29: while the caller is blocked last_send_time keeps its previous value,
\* and it is set to the clock when the sleep has ended; the sleep lasts a base
\* value in [MIN_MESSAGE_DELAY, MAX_MESSAGE_DELAY) plus MIN_MESSAGE_DELAY
\* minus the time since the previous send exactly when that time is below
\* MIN_MESSAGE_DELAY.
C29_GateUpdateOrder ==
    [][\A m \in TimingUsers :
         /\ timing'[m].pc = "sleep"
            => LET since == timing'[m].entered - timing'[m].prev
                   deficit == IF since < MIN_MESSAGE_DELAY
                              THEN MIN_MESSAGE_DELAY - since ELSE 0
               IN  /\ last_send_time'[m] = timing'[m].prev
                   /\ timing'[m].delay - deficit >= MIN_MESSAGE_DELAY
                   /\ timing'[m].delay - deficit < MAX_MESSAGE_DELAY
         /\ (timing[m].pc = "sleep" /\ timing'[m].pc = "idle")
            => /\ last_send_time[m] = timing[m].prev
               /\ last_send_time'[m] = now'
               /\ now' >= timing[m].entered + timing[m].delay]_vars

\* A caller is blocked in the gate less than MIN_MESSAGE_DELAY after the
\* previous send, so the deficit is part of its sleep.
C29_Witness ==
    \E m \in TimingUsers :
        /\ timing[m].pc = "sleep"
        /\ timing[m].prev > 0
        /\ timing[m].entered > timing[m].prev
        /\ timing[m].entered - timing[m].prev < MIN_MESSAGE_DELAY

\* C28: when cleanup returns on a messenger that held a key, the buffer that
\* held the key contains only zero bytes.
C28_KeyErased ==
    \A m \in Callers :
        (ret[m].op = "cleanup" /\ ret[m].buffers.key # <<>>)
        => \A i \in 1..Len(ret[m].buffers.key) : ret[m].buffers.key[i] = 0

\* C26: a wake of the dummy thread that finds a peer in self.clients ends with
\* every peer of the collection holding the one dummy envelope of that round,
\* or removed from self.clients and closed because its send failed; a wake
\* that finds no peer creates no envelope and sends nothing.
C26_DummyBroadcast ==
    [][/\ (dpc \in {"for", "except", "remove"} /\ dpc' \in {"sleep", "done"})
          => \A i \in 1..Len(dsnap) :
                \/ \E j \in 1..Len(sock'[dsnap[i]]) :
                      /\ sock'[dsnap[i]][j].src = Server
                      /\ sock'[dsnap[i]][j].data = dmsg
                \/ (~InList(dsnap[i], clients') /\ dsnap[i] \in closed')
       /\ (dpc = "sleep" /\ dpc' = "sleep" /\ ndummy' # ndummy)
          => (tokens' = tokens /\ sock' = sock)]_vars

\* C27: while the relay is running the dummy thread is inside its loop,
\* whatever the handler threads do meanwhile.
C27_DummyLifetime ==
    running => dpc \in {"sleep", "generate", "for", "except", "remove"}

\* ---------------------------------------------------------------------------
\* Two handlers broadcasting at once: every peer that stays writes one short
\* envelope, before its handler has read anything.
peer_write_once(p) ==
    /\ peer[p] = "open"
    /\ hseq[p] = 0
    /\ up[p] = <<>>
    /\ LET tok == FernetEncrypt(GeneratedSuite, [i \in 1..2 |-> 104], PAD_MIN, 0)
           t == Len(tokens) + 1
       IN  /\ tokens' = Append(tokens, tok)
           /\ up' = [up EXCEPT ![p] = BCat(@, <<(<<t, 1, TokenLen(tok)>>)>>)]
    /\ UNCHANGED <<sock, rpos, peer, nwrites>>
    /\ UNCHANGED <<relayVars, dummyVars, clientVars, msgrVars>>
    /\ UNCHANGED callVars

NextRace ==
    \/ server_start
    \/ \E p \in Peers : accept(p)
    \/ \E p \in Peers : handle_client_recv(p)
    \/ \E p \in Peers : handle_client_for(p)
    \/ \E p \in Peers : handle_client_except(p)
    \/ \E p \in Peers : handle_client_remove(p)
    \/ \E p \in Peers : handle_client_finally(p)
    \/ \E p \in Peers : handle_client_fremove(p)
    \/ \E p \in Peers : peer_connect(p)
    \/ \E p \in Peers \ Fragile : peer_write_once(p)
    \/ \E p \in Fragile : peer_gone(p)

SpecRace == Init /\ [][NextRace]_vars

\* C30: a handler that saw a send fail and goes on to remove the failed peer
\* stays in its broadcast loop, also when another handler saw its send to
\* that peer fail and removes it at the same time; the handler's own peer
\* stays in self.clients with its socket open.
C30_ConcurrentRemovalSafe ==
    [][\A p \in Peers :
         (/\ hpc[p] = "remove" /\ hpc'[p] # "remove"
          /\ \E q \in Peers \ {p} : hcur[p] \in hfail[q])
         => /\ hpc'[p] = "for"
            /\ InList(p, clients')
            /\ p \notin closed']_vars

\* Message ids _derive_message_key is asked about.
MessageIds == {0, 1}

OversizeTexts == {Text(2), Text(4050)}

NextOversize ==
    \/ server_start
    \/ \E p \in Users, ok \in BOOLEAN : client_connect(p, ConnectionString, ok)
    \/ \E p \in Users : receive_messages_recv(p)
    \/ \E p \in Users : receive_messages_timeout(p)
    \/ \E p \in Users : receive_messages_except(p)
    \/ \E p \in Users, message \in OversizeTexts, r \in RandBelow(PAD_RANGE) :
           send_message(p, message, r + PAD_MIN, 0, 0)
    \/ \E p \in Users : input_quit(p)
    \/ \E p \in Users : disconnect(p)
    \/ \E p \in Users : relay_close(p)
    \/ \E p \in Users : peer_gone(p)

SpecOversize == Init /\ [][NextOversize]_vars

\* C32: a send_message call on a connected client whose text, length field
\* and drawn padding exceed the largest frame returns False, writes nothing to
\* the socket, raises nothing and leaves connected True; no envelope is
\* created for it.
C32_OversizeSend ==
    [][\A p \in Users :
         (/\ Len(sendlog'[p]) = Len(sendlog[p]) + 1
          /\ connected[p]
          /\ LET e == sendlog'[p][Len(sendlog'[p])]
             IN  4 + Len(Utf8Encode(e.message)) + e.padding_size
                   > MESSAGE_SIZES[Len(MESSAGE_SIZES)])
         => LET e == sendlog'[p][Len(sendlog'[p])]
            IN  /\ ~e.result
                /\ e.writes = 0
                /\ ~e.raised
                /\ e.connected
                /\ connected'[p]
                /\ up' = up
                /\ tokens' = tokens]_vars

\* A connected client's send_message of a text that does not fit has
\* returned False.
C32_Witness ==
    \E p \in Users : \E i \in 1..Len(sendlog[p]) :
        /\ sendlog[p][i].encrypted
        /\ 4 + Len(sendlog[p][i].message) + sendlog[p][i].padding_size > 4096
        /\ ~sendlog[p][i].result
        /\ connected[p]

\* ---------------------------------------------------------------------------
\* connect attempt by attempt.
max_retries == 3
\* seconds
retry_delay == 10
\* What one "self.socket.connect((onion_address, 8080))" does.
ConnectOutcomes == {"connected", "timeout", "error"}

\* One attempt more than max_retries before connect gives up.
LastAttemptLate(a) == a = max_retries

\* "if attempt == max_retries - 1" in both except blocks.
LastAttempt(a) == a = max_retries - 1

\* connect up to the retry loop: the connection string is parsed, the key is
\* set and a SOCKS port of Tor is looked for (proxy: one answers); each
\* failure returns False.
connect_enter(p, connection_string, proxy) ==
    /\ mpc[p] = "init"
    /\ \E stripped \in {Strip(connection_string)} :
       \E keyed \in {IF InvalidFormat(stripped)
                      THEN [key |-> key[p], cipher_suite |-> cipher_suite[p],
                            result |-> FALSE]
                      ELSE set_key(p, Strip(Field(stripped, 2)))} :
           /\ key' = [key EXCEPT ![p] = keyed.key]
           /\ cipher_suite' = [cipher_suite EXCEPT ![p] = keyed.cipher_suite]
           /\ IF keyed.result /\ proxy
              THEN /\ mpc' = [mpc EXCEPT ![p] = "connecting"]
                   /\ ret' = [ret EXCEPT ![p] = [op |-> "connecting", arg |-> connection_string,
                                                 draw |-> 0, result |-> FALSE]]
              ELSE /\ mpc' = [mpc EXCEPT ![p] = "closing"]
                   /\ ret' = [ret EXCEPT ![p] = [op |-> "connect", arg |-> connection_string,
                                                 draw |-> 0, result |-> FALSE]]
    /\ UNCHANGED <<connected, rpc, display, sendlog, rlog, rlost>>
    /\ UNCHANGED <<last_send_time, now>>
    /\ UNCHANGED <<message_counter, private_key, public_key, shared_secret, timing>>
    /\ UNCHANGED loopVars
    /\ UNCHANGED <<relayVars, dummyVars, netVars>>

\* One round of "for attempt in range(max_retries)": the sleep of retry_delay
\* before every attempt but the first, then socket.connect.  Success leaves
\* the loop: connected = True, the receive thread is started, connect returns
\* True.  A timeout or another exception closes the socket and, on the last
\* attempt, returns False.
connect_attempt(p, outcome) ==
    /\ mpc[p] = "connecting"
    /\ attempt' = [attempt EXCEPT ![p] = @ + 1]
    /\ now' = now + (IF attempt[p] > 0 THEN retry_delay * 1000 ELSE 0)
    /\ IF outcome = "connected"
       THEN /\ spc = "accept"
            /\ peer[p] = "absent"
            /\ peer' = [peer EXCEPT ![p] = "open"]
            /\ connected' = [connected EXCEPT ![p] = TRUE]
            /\ rpc' = [rpc EXCEPT ![p] = "recv"]
            /\ mpc' = [mpc EXCEPT ![p] = "chat"]
            /\ ret' = [ret EXCEPT ![p] = [@ EXCEPT !.op = "connect", !.result = TRUE]]
       ELSE /\ IF LastAttempt(attempt[p])
               THEN /\ mpc' = [mpc EXCEPT ![p] = "closing"]
                    /\ ret' = [ret EXCEPT ![p] = [@ EXCEPT !.op = "connect", !.result = FALSE]]
               ELSE UNCHANGED <<mpc, ret>>
            /\ UNCHANGED <<peer, connected, rpc>>
    /\ UNCHANGED <<display, sendlog, rlog, rlost>>
    /\ UNCHANGED <<tokens, up, sock, rpos, nwrites>>
    /\ UNCHANGED <<key, cipher_suite, last_send_time>>
    /\ UNCHANGED <<message_counter, private_key, public_key, shared_secret, timing>>
    /\ UNCHANGED <<sidx, sview>>
    /\ UNCHANGED <<relayVars, dummyVars>>

NextConnect ==
    \/ server_start
    \/ \E p \in Users, cs \in ConnStrings, proxy \in BOOLEAN : connect_enter(p, cs, proxy)
    \/ \E p \in Users, outcome \in ConnectOutcomes : connect_attempt(p, outcome)
    \/ \E p \in Users : receive_messages_recv(p)
    \/ \E p \in Users : receive_messages_timeout(p)
    \/ \E p \in Users : receive_messages_except(p)
    \/ \E p \in Users : send_message(p, Text(2), PAD_MIN, 0, 0)
    \/ \E p \in Users : input_quit(p)
    \/ \E p \in Users : disconnect(p)
    \/ \E p \in Users : relay_send(p, [key |-> GeneratedSuite, plain |-> Text(2)])
    \/ \E p \in Users : relay_close(p)
    \/ \E p \in Users : peer_gone(p)

SpecConnect == Init /\ [][NextConnect]_vars

\* C33: connect makes at most 3 connection attempts; connected becomes True,
\* the receive thread starts and connect returns True only in a step where an
\* attempt succeeded; connect leaves the retry loop with False only after the
\* third failed attempt, with connected False and no receive thread.
C33_BoundedConnectRetry ==
    [][\A p \in Users :
         /\ attempt'[p] <= 3
         /\ ((connected'[p] /\ ~connected[p]) \/ (rpc[p] = "none" /\ rpc'[p] # "none")
             \/ (ret'[p] # ret[p] /\ ret'[p].op = "connect" /\ ret'[p].result))
            => /\ attempt'[p] = attempt[p] + 1
               /\ peer[p] = "absent" /\ peer'[p] = "open"
               /\ connected'[p]
               /\ rpc'[p] = "recv"
               /\ ret'[p].op = "connect" /\ ret'[p].result
         /\ (mpc[p] = "connecting" /\ mpc'[p] = "closing")
            => /\ attempt'[p] = 3
               /\ ret'[p].op = "connect" /\ ~ret'[p].result
               /\ ~connected'[p]
               /\ rpc'[p] = "none"
               /\ peer'[p] = "absent"]_vars

\* connect has returned False after three failed attempts.
C33_Witness ==
    \E p \in Users :
        /\ attempt[p] = 3
        /\ mpc[p] = "closing"
        /\ ret[p].op = "connect"
        /\ ~ret[p].result
        /\ ~connected[p]

\* C34: when cleanup returns, key, cipher_suite, shared_secret, private_key
\* and public_key are None; a cleanup that follows a cleanup changes no
\* field; and from then on encrypt_message and decrypt_message return None,
\* the cipher suite staying None through every call except generate_key and
\* a set_key that returns True.
C34_CleanupPostState ==
    [][\A m \in Callers :
         /\ Returns(m, "cleanup")
            => /\ key'[m] = None
               /\ cipher_suite'[m] = None
               /\ shared_secret'[m] = None
               /\ private_key'[m] = None
               /\ public_key'[m] = None
               /\ \A message \in Plaintexts :
                     encrypt_message(m, message, PAD_MIN, 0)' = None
               /\ \A t \in 1..Len(tokens) : decrypt_message(m, Whole(t))' = None
         /\ (Returns(m, "cleanup") /\ ret[m].op = "cleanup") => FieldsKept(m)
         /\ (cipher_suite[m] = None /\ cipher_suite'[m] # None)
            => \/ Returns(m, "generate_key")
               \/ (Returns(m, "set_key") /\ ret'[m].result = TRUE)
         /\ (/\ cipher_suite[m] = None
             /\ Returns(m, "encrypt_message") \/ Returns(m, "decrypt_message"))
            => (ret'[m].result = None /\ cipher_suite'[m] = None)]_vars

\* cleanup has returned twice in a row on a messenger that held a key and
\* had sealed an envelope.
C34_Witness ==
    \E m \in Callers :
        /\ ret[m].op = "cleanup"
        /\ ret[m].buffers.key = <<>>
        /\ key[m] = None
        /\ cipher_suite[m] = None
        /\ last_send_time[m] > 0

\* ---------------------------------------------------------------------------
\* AnonymousServer.stop with the handler threads.

\* stop(): "self.running = False", the listening socket is closed, and the
\* loop "for client in self.clients" begins.
stop_begin ==
    /\ spc = "accept"
    /\ running
    /\ running' = FALSE
    /\ spc' = "stopping"
    /\ sidx' = 0
    /\ sview' = clients
    /\ UNCHANGED <<clients, closed, hpc, hidx, hcur, hdata, hseq, hview, hfail>>
    /\ UNCHANGED <<dummyVars, netVars, clientVars, msgrVars>>
    /\ UNCHANGED <<message_counter, private_key, public_key, shared_secret, ret, timing, attempt>>

\* One round of "for client in self.clients: client.close()": the list
\* iterator yields self.clients[index] of the list as it is now.  When the
\* index is past the end the loop is over, self.messenger.cleanup() runs and
\* stop returns.
stop_for ==
    /\ spc = "stopping"
    /\ IF sidx < Len(clients)
       THEN /\ closed' = closed \cup {clients[sidx + 1]}
            /\ sidx' = sidx + 1
            /\ UNCHANGED <<spc, key, cipher_suite, private_key, public_key, shared_secret>>
       ELSE /\ spc' = "stopped"
            /\ key' = [key EXCEPT ![Server] = NoKey]
            /\ cipher_suite' = [cipher_suite EXCEPT ![Server] = NoKey]
            /\ private_key' = [private_key EXCEPT ![Server] = None]
            /\ public_key' = [public_key EXCEPT ![Server] = None]
            /\ shared_secret' = [shared_secret EXCEPT ![Server] = None]
            /\ UNCHANGED <<closed, sidx>>
    /\ UNCHANGED <<running, clients, hpc, hidx, hcur, hdata, hseq, hview, hfail>>
    /\ UNCHANGED <<dummyVars, netVars, clientVars, last_send_time, now>>
    /\ UNCHANGED <<message_counter, ret, timing, attempt, sview>>

NextStop ==
    \/ NextRelay
    \/ stop_begin
    \/ stop_for

SpecStop == Init /\ [][NextStop]_vars

\* C35: once stop has returned, every peer that was in self.clients when
\* stop was called has been closed, whatever the handler threads removed from
\* the list meanwhile.
C35_StopClosesEveryPeer ==
    spc = "stopped" => \A i \in 1..Len(sview) : sview[i] \in closed

====
